---- MODULE Spec2Model ----
(***************************************************************************)
(* Model of the XLM price-prediction market contract                       *)
(* (contracts/src/contract.rs, contracts/src/types.rs).                    *)
(*                                                                         *)
(* The persistent store is one record, `storage`, with one field per       *)
(* DataKey.  Every public entry point is an operator that takes the store  *)
(* and the call's arguments and returns [res, st, ret]: the result         *)
(* ("Ok" or the ContractError), the store as the function body left it,    *)
(* and the returned value.  An Option<T> is a sequence of length 0 (None)  *)
(* or 1 (Some).  A Map<Address, T> is a function whose domain is the set   *)
(* of keys; Map::keys() iterates in ascending key order, so accounts are   *)
(* the integers 1..NumUsers.                                               *)
(*                                                                         *)
(* Amounts are i128 minor units.  The minted amount 1000_0000000 does not  *)
(* fit the integers of the model checker, so amounts are counted in a      *)
(* coarser unit: INITIAL_AMOUNT units are minted per account.              *)
(***************************************************************************)
EXTENDS Integers, Sequences, FiniteSets, TLC

VARIABLES storage, ledger, rounds, i128_max, u32_max, overflow_checks

vars == <<storage, ledger, rounds, i128_max, u32_max, overflow_checks>>

----------------------------------------------------------------------------
(* Bounds of the exploration.  Spec runs the whole life cycle over          *)
(* LifecycleUsers accounts and MaxRounds rounds; SpecPayout runs a single   *)
(* round over all NumUsers accounts, enough for two winners and a loser;    *)
(* SpecNarrow runs a single round with i128 narrowed to NarrowMax and the   *)
(* u32 of the ledger sequence narrowed to NarrowLedgerMax, where the        *)
(* overflow branches of the checked arithmetic are reached.                 *)

NumUsers == 3
LifecycleUsers == 2
INITIAL_AMOUNT == 2
MaxPrice == 2
MaxWindow == 2
MaxLedger == 4
MaxRounds == 2
PayoutLedger == 2
PayoutRounds == 1
StaleRounds == 2
StatsMax == 2
NarrowMax == 3
NarrowLedgerMax == 13

(* Program constants *)

DEFAULT_BET_WINDOW == 6
DEFAULT_RUN_WINDOW == 12
MAX_PRICE_SCALE == 99999999

Users == 1..NumUsers

None == <<>>
Some(x) == <<x>>
IsSome(o) == Len(o) = 1
Unwrap(o) == o[1]
UnwrapOr(o, d) == IF Len(o) = 1 THEN o[1] ELSE d

(* i128::MAX and u32::MAX lie above every integer the model checker holds,  *)
(* so at full width no sum the model can form reaches the limit of its      *)
(* type.  A limit is None at full width and Some(n) where a run narrows the *)
(* type to -n-1..n (0..n for the unsigned ledger sequence).  The limits in  *)
(* force are the run's i128_max and u32_max, which no step changes.         *)
FullWidth == None
Exceeds(x, max) == IsSome(max) /\ x > Unwrap(max)
Underruns(x, max) == IsSome(max) /\ x < 0 - Unwrap(max) - 1
U32_MAX == u32_max
I128_MAX == i128_max

EmptyMap == [u \in {} |-> 0]
(* A map started anew at each set. *)
MapSet_replaces(m, k, v) == [x \in {k} |-> v]

MapSet(m, k, v) == [x \in (DOMAIN m) \cup {k} |-> IF x = k THEN v ELSE m[x]]

UpDown == "UpDown"
Precision == "Precision"
Up == "Up"
Down == "Down"

ZeroStats == [total_wins |-> 0, total_losses |-> 0, current_streak |-> 0, best_streak |-> 0]

(* The store before any call: no key is set. *)
EmptyStorage ==
    [Balance |-> [u \in Users |-> None],
     Admin |-> None,
     Oracle |-> None,
     ActiveRound |-> None,
     Positions |-> None,
     UpDownPositions |-> None,
     PrecisionPositions |-> None,
     PendingWinnings |-> [u \in Users |-> None],
     UserStats |-> [u \in Users |-> None],
     BetWindowLedgers |-> None,
     RunWindowLedgers |-> None]

Ok(st, ret) == [res |-> "Ok", st |-> st, ret |-> ret]
Err(e, st) == [res |-> e, st |-> st, ret |-> None]

(* An addition that saturates at the limit. *)
checked_add_saturates(a, b, max) ==
    IF Exceeds(a + b, max) THEN Some(Unwrap(max)) ELSE Some(a + b)

checked_add(a, b, max) == IF Exceeds(a + b, max) THEN None ELSE Some(a + b)
checked_sub(a, b) == IF Underruns(a - b, I128_MAX) THEN None ELSE Some(a - b)
checked_mul(a, b) ==
    IF a # 0 /\ IsSome(I128_MAX) /\ b > Unwrap(I128_MAX) \div a THEN None ELSE Some(a * b)

(* An unchecked i128 addition whose sum passes the limit: the sum modulo    *)
(* the width of the type, as a build without overflow checks computes it.   *)
wrapping_add(a, b) == a + b - 2 * (Unwrap(I128_MAX) + 1)

----------------------------------------------------------------------------
(* Read accessors *)

balance(st, user) == UnwrapOr(st.Balance[user], 0)

get_pending_winnings(st, user) == UnwrapOr(st.PendingWinnings[user], 0)

get_user_stats(st, user) == UnwrapOr(st.UserStats[user], ZeroStats)

get_active_round(st) == st.ActiveRound

get_updown_positions(st) == UnwrapOr(st.UpDownPositions, EmptyMap)

get_precision_predictions(st) == UnwrapOr(st.PrecisionPositions, <<>>)

_set_balance(st, user, amount) ==
    [st EXCEPT !.Balance[user] = Some(amount)]

----------------------------------------------------------------------------
(* Account ledger *)

(* A mint that tops up an account whose balance has run out. *)
mint_initial_tops_up(st, user, auth) ==
    IF ~auth THEN Err("AuthError", st)
    ELSE IF IsSome(st.Balance[user]) /\ Unwrap(st.Balance[user]) > 0
         THEN Ok(st, Unwrap(st.Balance[user]))
    ELSE Ok([st EXCEPT !.Balance[user] = Some(INITIAL_AMOUNT)], INITIAL_AMOUNT)

mint_initial(st, user, auth) ==
    IF ~auth THEN Err("AuthError", st)
    ELSE IF IsSome(st.Balance[user]) THEN Ok(st, Unwrap(st.Balance[user]))
    ELSE Ok([st EXCEPT !.Balance[user] = Some(INITIAL_AMOUNT)], INITIAL_AMOUNT)

----------------------------------------------------------------------------
(* Round lifecycle *)

(* An initialization that can be repeated. *)
initialize_repeatable(st, admin, oracle, auth) ==
    IF ~auth THEN Err("AuthError", st)
    ELSE Ok([st EXCEPT !.Admin = Some(admin),
                       !.Oracle = Some(oracle),
                       !.BetWindowLedgers = Some(DEFAULT_BET_WINDOW),
                       !.RunWindowLedgers = Some(DEFAULT_RUN_WINDOW)], None)

initialize(st, admin, oracle, auth) ==
    IF ~auth THEN Err("AuthError", st)
    ELSE IF IsSome(st.Admin) THEN Err("AlreadyInitialized", st)
    ELSE Ok([st EXCEPT !.Admin = Some(admin),
                       !.Oracle = Some(oracle),
                       !.BetWindowLedgers = Some(DEFAULT_BET_WINDOW),
                       !.RunWindowLedgers = Some(DEFAULT_RUN_WINDOW)], None)

(* A round created with the default windows whatever windows are stored. *)
create_round_default_windows(st, now, start_price, mode, auth) ==
    IF start_price = 0 THEN Err("InvalidPrice", st)
    ELSE LET mode_value == UnwrapOr(mode, 0) IN
    IF mode_value > 1 THEN Err("InvalidMode", st)
    ELSE LET round_mode == IF mode_value = 0 THEN UpDown ELSE Precision IN
    IF ~IsSome(st.Admin) THEN Err("AdminNotSet", st)
    ELSE IF ~auth THEN Err("AuthError", st)
    ELSE LET start_ledger == now
             bet_end_ledger == checked_add(start_ledger, DEFAULT_BET_WINDOW, U32_MAX)
             end_ledger == checked_add(start_ledger, DEFAULT_RUN_WINDOW, U32_MAX) IN
    IF ~IsSome(bet_end_ledger) THEN Err("Overflow", st)
    ELSE IF ~IsSome(end_ledger) THEN Err("Overflow", st)
    ELSE LET round == [price_start |-> start_price,
                       start_ledger |-> start_ledger,
                       bet_end_ledger |-> Unwrap(bet_end_ledger),
                       end_ledger |-> Unwrap(end_ledger),
                       pool_up |-> 0,
                       pool_down |-> 0,
                       mode |-> round_mode] IN
         Ok([st EXCEPT !.ActiveRound = Some(round),
                       !.UpDownPositions = None,
                       !.PrecisionPositions = None], None)

(* A round created over the positions of the round before it. *)
create_round_keeps_positions(st, now, start_price, mode, auth) ==
    IF start_price = 0 THEN Err("InvalidPrice", st)
    ELSE LET mode_value == UnwrapOr(mode, 0) IN
    IF mode_value > 1 THEN Err("InvalidMode", st)
    ELSE LET round_mode == IF mode_value = 0 THEN UpDown ELSE Precision IN
    IF ~IsSome(st.Admin) THEN Err("AdminNotSet", st)
    ELSE IF ~auth THEN Err("AuthError", st)
    ELSE LET bet_ledgers == UnwrapOr(st.BetWindowLedgers, DEFAULT_BET_WINDOW)
             run_ledgers == UnwrapOr(st.RunWindowLedgers, DEFAULT_RUN_WINDOW)
             start_ledger == now
             bet_end_ledger == checked_add(start_ledger, bet_ledgers, U32_MAX)
             end_ledger == checked_add(start_ledger, run_ledgers, U32_MAX) IN
    IF ~IsSome(bet_end_ledger) THEN Err("Overflow", st)
    ELSE IF ~IsSome(end_ledger) THEN Err("Overflow", st)
    ELSE LET round == [price_start |-> start_price,
                       start_ledger |-> start_ledger,
                       bet_end_ledger |-> Unwrap(bet_end_ledger),
                       end_ledger |-> Unwrap(end_ledger),
                       pool_up |-> 0,
                       pool_down |-> 0,
                       mode |-> round_mode] IN
         Ok([st EXCEPT !.ActiveRound = Some(round)], None)

(* A round created over the predictions of the round before it. *)
create_round_keeps_predictions(st, now, start_price, mode, auth) ==
    IF start_price = 0 THEN Err("InvalidPrice", st)
    ELSE LET mode_value == UnwrapOr(mode, 0) IN
    IF mode_value > 1 THEN Err("InvalidMode", st)
    ELSE LET round_mode == IF mode_value = 0 THEN UpDown ELSE Precision IN
    IF ~IsSome(st.Admin) THEN Err("AdminNotSet", st)
    ELSE IF ~auth THEN Err("AuthError", st)
    ELSE LET bet_ledgers == UnwrapOr(st.BetWindowLedgers, DEFAULT_BET_WINDOW)
             run_ledgers == UnwrapOr(st.RunWindowLedgers, DEFAULT_RUN_WINDOW)
             start_ledger == now
             bet_end_ledger == checked_add(start_ledger, bet_ledgers, U32_MAX)
             end_ledger == checked_add(start_ledger, run_ledgers, U32_MAX) IN
    IF ~IsSome(bet_end_ledger) THEN Err("Overflow", st)
    ELSE IF ~IsSome(end_ledger) THEN Err("Overflow", st)
    ELSE LET round == [price_start |-> start_price,
                       start_ledger |-> start_ledger,
                       bet_end_ledger |-> Unwrap(bet_end_ledger),
                       end_ledger |-> Unwrap(end_ledger),
                       pool_up |-> 0,
                       pool_down |-> 0,
                       mode |-> round_mode] IN
         Ok([st EXCEPT !.ActiveRound = Some(round),
                       !.UpDownPositions = None], None)

(* A round created in Precision mode for every selector but 0. *)
create_round_any_selector(st, now, start_price, mode, auth) ==
    IF start_price = 0 THEN Err("InvalidPrice", st)
    ELSE LET mode_value == UnwrapOr(mode, 0)
             round_mode == IF mode_value = 0 THEN UpDown ELSE Precision IN
    IF ~IsSome(st.Admin) THEN Err("AdminNotSet", st)
    ELSE IF ~auth THEN Err("AuthError", st)
    ELSE LET bet_ledgers == UnwrapOr(st.BetWindowLedgers, DEFAULT_BET_WINDOW)
             run_ledgers == UnwrapOr(st.RunWindowLedgers, DEFAULT_RUN_WINDOW)
             start_ledger == now
             bet_end_ledger == checked_add(start_ledger, bet_ledgers, U32_MAX)
             end_ledger == checked_add(start_ledger, run_ledgers, U32_MAX) IN
    IF ~IsSome(bet_end_ledger) THEN Err("Overflow", st)
    ELSE IF ~IsSome(end_ledger) THEN Err("Overflow", st)
    ELSE LET round == [price_start |-> start_price,
                       start_ledger |-> start_ledger,
                       bet_end_ledger |-> Unwrap(bet_end_ledger),
                       end_ledger |-> Unwrap(end_ledger),
                       pool_up |-> 0,
                       pool_down |-> 0,
                       mode |-> round_mode] IN
         Ok([st EXCEPT !.ActiveRound = Some(round),
                       !.UpDownPositions = None,
                       !.PrecisionPositions = None], None)

(* A round whose two windows are taken one for the other. *)
create_round_swaps_windows(st, now, start_price, mode, auth) ==
    IF start_price = 0 THEN Err("InvalidPrice", st)
    ELSE LET mode_value == UnwrapOr(mode, 0) IN
    IF mode_value > 1 THEN Err("InvalidMode", st)
    ELSE LET round_mode == IF mode_value = 0 THEN UpDown ELSE Precision IN
    IF ~IsSome(st.Admin) THEN Err("AdminNotSet", st)
    ELSE IF ~auth THEN Err("AuthError", st)
    ELSE LET bet_ledgers == UnwrapOr(st.BetWindowLedgers, DEFAULT_BET_WINDOW)
             run_ledgers == UnwrapOr(st.RunWindowLedgers, DEFAULT_RUN_WINDOW)
             start_ledger == now
             bet_end_ledger == checked_add(start_ledger, run_ledgers, U32_MAX)
             end_ledger == checked_add(start_ledger, bet_ledgers, U32_MAX) IN
    IF ~IsSome(bet_end_ledger) THEN Err("Overflow", st)
    ELSE IF ~IsSome(end_ledger) THEN Err("Overflow", st)
    ELSE LET round == [price_start |-> start_price,
                       start_ledger |-> start_ledger,
                       bet_end_ledger |-> Unwrap(bet_end_ledger),
                       end_ledger |-> Unwrap(end_ledger),
                       pool_up |-> 0,
                       pool_down |-> 0,
                       mode |-> round_mode] IN
         Ok([st EXCEPT !.ActiveRound = Some(round),
                       !.UpDownPositions = None,
                       !.PrecisionPositions = None], None)

create_round(st, now, start_price, mode, auth) ==
    IF start_price = 0 THEN Err("InvalidPrice", st)
    ELSE LET mode_value == UnwrapOr(mode, 0) IN
    IF mode_value > 1 THEN Err("InvalidMode", st)
    ELSE LET round_mode == IF mode_value = 0 THEN UpDown ELSE Precision IN
    IF ~IsSome(st.Admin) THEN Err("AdminNotSet", st)
    ELSE IF ~auth THEN Err("AuthError", st)
    ELSE LET bet_ledgers == UnwrapOr(st.BetWindowLedgers, DEFAULT_BET_WINDOW)
             run_ledgers == UnwrapOr(st.RunWindowLedgers, DEFAULT_RUN_WINDOW)
             start_ledger == now
             bet_end_ledger == checked_add(start_ledger, bet_ledgers, U32_MAX)
             end_ledger == checked_add(start_ledger, run_ledgers, U32_MAX) IN
    IF ~IsSome(bet_end_ledger) THEN Err("Overflow", st)
    ELSE IF ~IsSome(end_ledger) THEN Err("Overflow", st)
    ELSE LET round == [price_start |-> start_price,
                       start_ledger |-> start_ledger,
                       bet_end_ledger |-> Unwrap(bet_end_ledger),
                       end_ledger |-> Unwrap(end_ledger),
                       pool_up |-> 0,
                       pool_down |-> 0,
                       mode |-> round_mode] IN
         Ok([st EXCEPT !.ActiveRound = Some(round),
                       !.UpDownPositions = None,
                       !.PrecisionPositions = None], None)

(* Windows accepted when the bet window equals the run window. *)
set_windows_allows_equal(st, bet_ledgers, run_ledgers, auth) ==
    IF ~IsSome(st.Admin) THEN Err("AdminNotSet", st)
    ELSE IF ~auth THEN Err("AuthError", st)
    ELSE IF bet_ledgers = 0 \/ run_ledgers = 0 THEN Err("InvalidDuration", st)
    ELSE IF bet_ledgers > run_ledgers THEN Err("InvalidDuration", st)
    ELSE Ok([st EXCEPT !.BetWindowLedgers = Some(bet_ledgers),
                       !.RunWindowLedgers = Some(run_ledgers)], None)

(* The bet window stored before the two windows are compared. *)
set_windows_stores_first(st, bet_ledgers, run_ledgers, auth) ==
    IF ~IsSome(st.Admin) THEN Err("AdminNotSet", st)
    ELSE IF ~auth THEN Err("AuthError", st)
    ELSE IF bet_ledgers = 0 \/ run_ledgers = 0 THEN Err("InvalidDuration", st)
    ELSE LET st1 == [st EXCEPT !.BetWindowLedgers = Some(bet_ledgers)] IN
    IF bet_ledgers >= run_ledgers THEN Err("InvalidDuration", st1)
    ELSE Ok([st1 EXCEPT !.RunWindowLedgers = Some(run_ledgers)], None)

(* Windows that also move the ends of the round in progress. *)
set_windows_moves_round(st, bet_ledgers, run_ledgers, auth) ==
    IF ~IsSome(st.Admin) THEN Err("AdminNotSet", st)
    ELSE IF ~auth THEN Err("AuthError", st)
    ELSE IF bet_ledgers = 0 \/ run_ledgers = 0 THEN Err("InvalidDuration", st)
    ELSE IF bet_ledgers >= run_ledgers THEN Err("InvalidDuration", st)
    ELSE LET st1 == [st EXCEPT !.BetWindowLedgers = Some(bet_ledgers),
                               !.RunWindowLedgers = Some(run_ledgers)] IN
    IF ~IsSome(st.ActiveRound) THEN Ok(st1, None)
    ELSE LET round == Unwrap(st.ActiveRound) IN
         Ok([st1 EXCEPT !.ActiveRound =
                 Some([round EXCEPT !.bet_end_ledger = round.start_ledger + bet_ledgers,
                                    !.end_ledger = round.start_ledger + run_ledgers])], None)

set_windows(st, bet_ledgers, run_ledgers, auth) ==
    IF ~IsSome(st.Admin) THEN Err("AdminNotSet", st)
    ELSE IF ~auth THEN Err("AuthError", st)
    ELSE IF bet_ledgers = 0 \/ run_ledgers = 0 THEN Err("InvalidDuration", st)
    ELSE IF bet_ledgers >= run_ledgers THEN Err("InvalidDuration", st)
    ELSE Ok([st EXCEPT !.BetWindowLedgers = Some(bet_ledgers),
                       !.RunWindowLedgers = Some(run_ledgers)], None)

----------------------------------------------------------------------------
(* Stake intake *)

(* A window that closes one ledger late. *)
betting_closed_late(now, round) == now > round.bet_end_ledger

betting_closed(now, round) == now >= round.bet_end_ledger

(* A bet whose position check comes before the window check. *)
place_bet_position_first(st, now, user, amount, side, auth) ==
    IF ~auth THEN Err("AuthError", st)
    ELSE IF amount <= 0 THEN Err("InvalidBetAmount", st)
    ELSE IF ~IsSome(st.ActiveRound) THEN Err("NoActiveRound", st)
    ELSE LET round == Unwrap(st.ActiveRound) IN
    IF round.mode # UpDown THEN Err("WrongModeForPrediction", st)
    ELSE LET positions == UnwrapOr(st.UpDownPositions, EmptyMap) IN
    IF user \in DOMAIN positions THEN Err("AlreadyBet", st)
    ELSE IF betting_closed(now, round) THEN Err("RoundEnded", st)
    ELSE LET user_balance == balance(st, user) IN
    IF user_balance < amount THEN Err("InsufficientBalance", st)
    ELSE LET new_balance == checked_sub(user_balance, amount) IN
    IF ~IsSome(new_balance) THEN Err("Overflow", st)
    ELSE LET st1 == _set_balance(st, user, Unwrap(new_balance))
             position == [amount |-> amount, side |-> side]
             positions1 == MapSet(positions, user, position)
             pool == checked_add(IF side = Up THEN round.pool_up ELSE round.pool_down,
                                 amount, I128_MAX) IN
    IF ~IsSome(pool) THEN Err("Overflow", st1)
    ELSE LET round1 == IF side = Up THEN [round EXCEPT !.pool_up = Unwrap(pool)]
                                    ELSE [round EXCEPT !.pool_down = Unwrap(pool)]
             st2 == [st1 EXCEPT !.UpDownPositions = Some(positions1),
                                !.ActiveRound = Some(round1)]
             legacy_positions == UnwrapOr(st2.Positions, EmptyMap) IN
         Ok([st2 EXCEPT !.Positions = Some(MapSet(legacy_positions, user, position))], None)

place_bet(st, now, user, amount, side, auth) ==
    IF ~auth THEN Err("AuthError", st)
    ELSE IF amount <= 0 THEN Err("InvalidBetAmount", st)
    ELSE IF ~IsSome(st.ActiveRound) THEN Err("NoActiveRound", st)
    ELSE LET round == Unwrap(st.ActiveRound) IN
    IF round.mode # UpDown THEN Err("WrongModeForPrediction", st)
    ELSE IF betting_closed(now, round) THEN Err("RoundEnded", st)
    ELSE LET user_balance == balance(st, user) IN
    IF user_balance < amount THEN Err("InsufficientBalance", st)
    ELSE LET positions == UnwrapOr(st.UpDownPositions, EmptyMap) IN
    IF user \in DOMAIN positions THEN Err("AlreadyBet", st)
    ELSE LET new_balance == checked_sub(user_balance, amount) IN
    IF ~IsSome(new_balance) THEN Err("Overflow", st)
    ELSE LET st1 == _set_balance(st, user, Unwrap(new_balance))
             position == [amount |-> amount, side |-> side]
             positions1 == MapSet(positions, user, position)
             pool == checked_add(IF side = Up THEN round.pool_up ELSE round.pool_down,
                                 amount, I128_MAX) IN
    IF ~IsSome(pool) THEN Err("Overflow", st1)
    ELSE LET round1 == IF side = Up THEN [round EXCEPT !.pool_up = Unwrap(pool)]
                                    ELSE [round EXCEPT !.pool_down = Unwrap(pool)]
             st2 == [st1 EXCEPT !.UpDownPositions = Some(positions1),
                                !.ActiveRound = Some(round1)]
             legacy_positions == UnwrapOr(st2.Positions, EmptyMap) IN
         Ok([st2 EXCEPT !.Positions = Some(MapSet(legacy_positions, user, position))], None)

(* A scan that looks at the first entry only. *)
has_prediction_first_only(predictions, i, user) ==
    IF i > Len(predictions) THEN FALSE
    ELSE predictions[i].user = user

RECURSIVE has_prediction(_, _, _)
has_prediction(predictions, i, user) ==
    IF i > Len(predictions) THEN FALSE
    ELSE IF predictions[i].user = user THEN TRUE
    ELSE has_prediction(predictions, i + 1, user)

(* A prediction taken in a round of either mode. *)
place_precision_prediction_any_mode(st, now, user, amount, predicted_price, auth) ==
    IF ~auth THEN Err("AuthError", st)
    ELSE IF amount <= 0 THEN Err("InvalidBetAmount", st)
    ELSE IF predicted_price > MAX_PRICE_SCALE THEN Err("InvalidPriceScale", st)
    ELSE IF ~IsSome(st.ActiveRound) THEN Err("NoActiveRound", st)
    ELSE LET round == Unwrap(st.ActiveRound) IN
    IF betting_closed(now, round) THEN Err("RoundEnded", st)
    ELSE LET user_balance == balance(st, user) IN
    IF user_balance < amount THEN Err("InsufficientBalance", st)
    ELSE LET predictions == UnwrapOr(st.PrecisionPositions, <<>>) IN
    IF has_prediction(predictions, 1, user) THEN Err("AlreadyBet", st)
    ELSE LET new_balance == checked_sub(user_balance, amount) IN
    IF ~IsSome(new_balance) THEN Err("Overflow", st)
    ELSE LET st1 == _set_balance(st, user, Unwrap(new_balance))
             prediction == [user |-> user,
                            predicted_price |-> predicted_price,
                            amount |-> amount] IN
         Ok([st1 EXCEPT !.PrecisionPositions = Some(Append(predictions, prediction))], None)

(* A prediction put at the head of the list. *)
place_precision_prediction_at_head(st, now, user, amount, predicted_price, auth) ==
    IF ~auth THEN Err("AuthError", st)
    ELSE IF amount <= 0 THEN Err("InvalidBetAmount", st)
    ELSE IF predicted_price > MAX_PRICE_SCALE THEN Err("InvalidPriceScale", st)
    ELSE IF ~IsSome(st.ActiveRound) THEN Err("NoActiveRound", st)
    ELSE LET round == Unwrap(st.ActiveRound) IN
    IF round.mode # Precision THEN Err("WrongModeForPrediction", st)
    ELSE IF betting_closed(now, round) THEN Err("RoundEnded", st)
    ELSE LET user_balance == balance(st, user) IN
    IF user_balance < amount THEN Err("InsufficientBalance", st)
    ELSE LET predictions == UnwrapOr(st.PrecisionPositions, <<>>) IN
    IF has_prediction(predictions, 1, user) THEN Err("AlreadyBet", st)
    ELSE LET new_balance == checked_sub(user_balance, amount) IN
    IF ~IsSome(new_balance) THEN Err("Overflow", st)
    ELSE LET st1 == _set_balance(st, user, Unwrap(new_balance))
             prediction == [user |-> user,
                            predicted_price |-> predicted_price,
                            amount |-> amount] IN
         Ok([st1 EXCEPT !.PrecisionPositions = Some(<<prediction>> \o predictions)], None)

(* A prediction taken at any price. *)
place_precision_prediction_any_price(st, now, user, amount, predicted_price, auth) ==
    IF ~auth THEN Err("AuthError", st)
    ELSE IF amount <= 0 THEN Err("InvalidBetAmount", st)
    ELSE IF ~IsSome(st.ActiveRound) THEN Err("NoActiveRound", st)
    ELSE LET round == Unwrap(st.ActiveRound) IN
    IF round.mode # Precision THEN Err("WrongModeForPrediction", st)
    ELSE IF betting_closed(now, round) THEN Err("RoundEnded", st)
    ELSE LET user_balance == balance(st, user) IN
    IF user_balance < amount THEN Err("InsufficientBalance", st)
    ELSE LET predictions == UnwrapOr(st.PrecisionPositions, <<>>) IN
    IF has_prediction(predictions, 1, user) THEN Err("AlreadyBet", st)
    ELSE LET new_balance == checked_sub(user_balance, amount) IN
    IF ~IsSome(new_balance) THEN Err("Overflow", st)
    ELSE LET st1 == _set_balance(st, user, Unwrap(new_balance))
             prediction == [user |-> user,
                            predicted_price |-> predicted_price,
                            amount |-> amount] IN
         Ok([st1 EXCEPT !.PrecisionPositions = Some(Append(predictions, prediction))], None)

place_precision_prediction(st, now, user, amount, predicted_price, auth) ==
    IF ~auth THEN Err("AuthError", st)
    ELSE IF amount <= 0 THEN Err("InvalidBetAmount", st)
    ELSE IF predicted_price > MAX_PRICE_SCALE THEN Err("InvalidPriceScale", st)
    ELSE IF ~IsSome(st.ActiveRound) THEN Err("NoActiveRound", st)
    ELSE LET round == Unwrap(st.ActiveRound) IN
    IF round.mode # Precision THEN Err("WrongModeForPrediction", st)
    ELSE IF betting_closed(now, round) THEN Err("RoundEnded", st)
    ELSE LET user_balance == balance(st, user) IN
    IF user_balance < amount THEN Err("InsufficientBalance", st)
    ELSE LET predictions == UnwrapOr(st.PrecisionPositions, <<>>) IN
    IF has_prediction(predictions, 1, user) THEN Err("AlreadyBet", st)
    ELSE LET new_balance == checked_sub(user_balance, amount) IN
    IF ~IsSome(new_balance) THEN Err("Overflow", st)
    ELSE LET st1 == _set_balance(st, user, Unwrap(new_balance))
             prediction == [user |-> user,
                            predicted_price |-> predicted_price,
                            amount |-> amount] IN
         Ok([st1 EXCEPT !.PrecisionPositions = Some(Append(predictions, prediction))], None)

(* An alias that passes its arguments on in the order it takes them. *)
predict_price_unswapped(st, now, user, guessed_price, amount, auth) ==
    place_precision_prediction(st, now, user, guessed_price, amount, auth)

predict_price(st, now, user, guessed_price, amount, auth) ==
    place_precision_prediction(st, now, user, amount, guessed_price, auth)

get_user_position(st, user) ==
    LET positions == UnwrapOr(st.UpDownPositions, EmptyMap) IN
    IF user \in DOMAIN positions THEN Some(positions[user]) ELSE None

RECURSIVE find_prediction(_, _, _)
find_prediction(predictions, i, user) ==
    IF i > Len(predictions) THEN None
    ELSE IF predictions[i].user = user THEN Some(predictions[i])
    ELSE find_prediction(predictions, i + 1, user)

get_user_precision_prediction(st, user) ==
    find_prediction(UnwrapOr(st.PrecisionPositions, <<>>), 1, user)

----------------------------------------------------------------------------
(* Stats tracker *)

(* A win whose best streak follows the current streak. *)
_update_stats_win_best_follows(st, user) ==
    LET stats == get_user_stats(st, user)
        wins == stats.total_wins + 1
        streak == stats.current_streak + 1 IN
    [st EXCEPT !.UserStats[user] =
        Some([total_wins |-> wins, total_losses |-> stats.total_losses,
              current_streak |-> streak, best_streak |-> streak])]

(* A win that leaves the best streak as it was. *)
_update_stats_win_keeps_best(st, user) ==
    LET stats == get_user_stats(st, user)
        wins == stats.total_wins + 1
        streak == stats.current_streak + 1 IN
    [st EXCEPT !.UserStats[user] =
        Some([total_wins |-> wins, total_losses |-> stats.total_losses,
              current_streak |-> streak, best_streak |-> stats.best_streak])]

_update_stats_win(st, user) ==
    LET stats == get_user_stats(st, user)
        wins == stats.total_wins + 1
        streak == stats.current_streak + 1
        best == IF streak > stats.best_streak THEN streak ELSE stats.best_streak IN
    [st EXCEPT !.UserStats[user] =
        Some([total_wins |-> wins, total_losses |-> stats.total_losses,
              current_streak |-> streak, best_streak |-> best])]

_update_stats_loss(st, user) ==
    LET stats == get_user_stats(st, user) IN
    [st EXCEPT !.UserStats[user] =
        Some([stats EXCEPT !.total_losses = stats.total_losses + 1,
                           !.current_streak = 0])]

----------------------------------------------------------------------------
(* Resolution and payout engine *)

MinKey(keys) == CHOOSE k \in keys : \A j \in keys : k <= j

(* A refund that also counts as a win. *)
refund_position_counts_win(st, user, position) ==
    LET existing_pending == get_pending_winnings(st, user)
        new_pending == checked_add(existing_pending, position.amount, I128_MAX) IN
    IF ~IsSome(new_pending) THEN Err("Overflow", st)
    ELSE Ok(_update_stats_win([st EXCEPT !.PendingWinnings[user] = new_pending], user), None)

(* One iteration of the loop of _record_refunds. *)
refund_position(st, user, position) ==
    LET existing_pending == get_pending_winnings(st, user)
        new_pending == checked_add(existing_pending, position.amount, I128_MAX) IN
    IF ~IsSome(new_pending) THEN Err("Overflow", st)
    ELSE Ok([st EXCEPT !.PendingWinnings[user] = new_pending], None)

(* The loop over positions.keys(), in key order; an Overflow returns at     *)
(* once, with the writes of the earlier iterations made.                    *)
RECURSIVE refunds_loop(_, _, _)
refunds_loop(st, positions, keys) ==
    IF keys = {} THEN Ok(st, None)
    ELSE LET user == MinKey(keys)
             step == refund_position(st, user, positions[user]) IN
         IF step.res # "Ok" THEN step
         ELSE refunds_loop(step.st, positions, keys \ {user})

_record_refunds(st, positions) == refunds_loop(st, positions, DOMAIN positions)

(* The share taken as (amount / winning_pool) * losing_pool: the division   *)
(* first.                                                                   *)
winner_payout_divides_first(amount, winning_pool, losing_pool) ==
    LET share == checked_mul(amount \div winning_pool, losing_pool) IN
    IF ~IsSome(share) THEN None
    ELSE checked_add(amount, Unwrap(share), I128_MAX)

(* payout = amount + amount * losing_pool / winning_pool, checked. *)
winner_payout(amount, winning_pool, losing_pool) ==
    LET share_numerator == checked_mul(amount, losing_pool) IN
    IF ~IsSome(share_numerator) THEN None
    ELSE LET share == Unwrap(share_numerator) \div winning_pool IN
         checked_add(amount, share, I128_MAX)

(* A settlement whose payout takes the place of the pending winnings. *)
settle_position_overwrites(st, user, position, winning_side, winning_pool, losing_pool) ==
    IF position.side = winning_side
    THEN LET payout == winner_payout(position.amount, winning_pool, losing_pool) IN
         IF ~IsSome(payout) THEN Err("Overflow", st)
         ELSE Ok(_update_stats_win([st EXCEPT !.PendingWinnings[user] = payout], user), None)
    ELSE Ok(_update_stats_loss(st, user), None)

(* One iteration of the loop of _record_winnings. *)
settle_position(st, user, position, winning_side, winning_pool, losing_pool) ==
    IF position.side = winning_side
    THEN LET payout == winner_payout(position.amount, winning_pool, losing_pool) IN
         IF ~IsSome(payout) THEN Err("Overflow", st)
         ELSE LET existing_pending == get_pending_winnings(st, user)
                  new_pending == checked_add(existing_pending, Unwrap(payout), I128_MAX) IN
         IF ~IsSome(new_pending) THEN Err("Overflow", st)
         ELSE Ok(_update_stats_win([st EXCEPT !.PendingWinnings[user] = new_pending], user), None)
    ELSE Ok(_update_stats_loss(st, user), None)

RECURSIVE winnings_loop(_, _, _, _, _, _)
winnings_loop(st, positions, keys, winning_side, winning_pool, losing_pool) ==
    IF keys = {} THEN Ok(st, None)
    ELSE LET user == MinKey(keys)
             step == settle_position(st, user, positions[user],
                                     winning_side, winning_pool, losing_pool) IN
         IF step.res # "Ok" THEN step
         ELSE winnings_loop(step.st, positions, keys \ {user},
                            winning_side, winning_pool, losing_pool)

(* Winnings that turn into refunds when nobody is on the winning side. *)
_record_winnings_refunds_empty(st, positions, winning_side, winning_pool, losing_pool) ==
    IF winning_pool = 0 THEN _record_refunds(st, positions)
    ELSE winnings_loop(st, positions, DOMAIN positions, winning_side, winning_pool, losing_pool)

_record_winnings(st, positions, winning_side, winning_pool, losing_pool) ==
    IF winning_pool = 0 THEN Ok(st, None)
    ELSE winnings_loop(st, positions, DOMAIN positions, winning_side, winning_pool, losing_pool)

(* A round that ends one ledger late. *)
round_not_ended_inclusive(now, round) == now <= round.end_ledger

round_not_ended(now, round) == now < round.end_ledger

(* The removals without the legacy map. *)
retire_round_keeps_legacy(st) ==
    [st EXCEPT !.ActiveRound = None,
               !.UpDownPositions = None,
               !.PrecisionPositions = None]

(* The removals without the round. *)
retire_round_keeps_round(st) ==
    [st EXCEPT !.Positions = None,
               !.UpDownPositions = None,
               !.PrecisionPositions = None]

(* The removals that end resolve_round. *)
retire_round(st) ==
    [st EXCEPT !.ActiveRound = None,
               !.Positions = None,
               !.UpDownPositions = None,
               !.PrecisionPositions = None]

(* A resolution that any caller can make. *)
resolve_round_unauthenticated(st, now, final_price, auth) ==
    IF final_price = 0 THEN Err("InvalidPrice", st)
    ELSE IF ~IsSome(st.Oracle) THEN Err("OracleNotSet", st)
    ELSE IF ~IsSome(st.ActiveRound) THEN Err("NoActiveRound", st)
    ELSE LET round == Unwrap(st.ActiveRound) IN
    IF round_not_ended(now, round) THEN Err("RoundNotEnded", st)
    ELSE LET positions == UnwrapOr(st.Positions, EmptyMap)
             price_went_up == final_price > round.price_start
             price_went_down == final_price < round.price_start
             price_unchanged == final_price = round.price_start
             paid == IF price_unchanged THEN _record_refunds(st, positions)
                     ELSE IF price_went_up
                          THEN _record_winnings(st, positions, Up, round.pool_up, round.pool_down)
                     ELSE IF price_went_down
                          THEN _record_winnings(st, positions, Down, round.pool_down, round.pool_up)
                     ELSE Ok(st, None) IN
    IF paid.res # "Ok" THEN paid
    ELSE Ok(retire_round(paid.st), None)

(* A resolution that unwraps the stored Oracle. *)
resolve_round_unwraps_oracle(st, now, final_price, auth) ==
    IF final_price = 0 THEN Err("InvalidPrice", st)
    ELSE IF ~IsSome(st.Oracle) THEN Err("Panic", st)
    ELSE IF ~auth THEN Err("AuthError", st)
    ELSE IF ~IsSome(st.ActiveRound) THEN Err("NoActiveRound", st)
    ELSE LET round == Unwrap(st.ActiveRound) IN
    IF round_not_ended(now, round) THEN Err("RoundNotEnded", st)
    ELSE LET positions == UnwrapOr(st.Positions, EmptyMap)
             price_went_up == final_price > round.price_start
             price_went_down == final_price < round.price_start
             price_unchanged == final_price = round.price_start
             paid == IF price_unchanged THEN _record_refunds(st, positions)
                     ELSE IF price_went_up
                          THEN _record_winnings(st, positions, Up, round.pool_up, round.pool_down)
                     ELSE IF price_went_down
                          THEN _record_winnings(st, positions, Down, round.pool_down, round.pool_up)
                     ELSE Ok(st, None) IN
    IF paid.res # "Ok" THEN paid
    ELSE Ok(retire_round(paid.st), None)

resolve_round(st, now, final_price, auth) ==
    IF final_price = 0 THEN Err("InvalidPrice", st)
    ELSE IF ~IsSome(st.Oracle) THEN Err("OracleNotSet", st)
    ELSE IF ~auth THEN Err("AuthError", st)
    ELSE IF ~IsSome(st.ActiveRound) THEN Err("NoActiveRound", st)
    ELSE LET round == Unwrap(st.ActiveRound) IN
    IF round_not_ended(now, round) THEN Err("RoundNotEnded", st)
    ELSE LET positions == UnwrapOr(st.Positions, EmptyMap)
             price_went_up == final_price > round.price_start
             price_went_down == final_price < round.price_start
             price_unchanged == final_price = round.price_start
             paid == IF price_unchanged THEN _record_refunds(st, positions)
                     ELSE IF price_went_up
                          THEN _record_winnings(st, positions, Up, round.pool_up, round.pool_down)
                     ELSE IF price_went_down
                          THEN _record_winnings(st, positions, Down, round.pool_down, round.pool_up)
                     ELSE Ok(st, None) IN
    IF paid.res # "Ok" THEN paid
    ELSE Ok(retire_round(paid.st), None)

----------------------------------------------------------------------------
(* Claim gateway *)

(* current_balance + pending is an unchecked i128 addition: past I128_MAX   *)
(* a build with overflow checks panics, and a build without them stores the *)
(* wrapped sum and goes on.                                                 *)
claim_winnings(st, user, auth) ==
    IF ~auth THEN Err("AuthError", st)
    ELSE LET pending == get_pending_winnings(st, user) IN
    IF pending = 0 THEN Ok(st, 0)
    ELSE LET current_balance == balance(st, user)
             new_balance == current_balance + pending IN
    IF Exceeds(new_balance, I128_MAX) /\ overflow_checks THEN Err("Panic", st)
    ELSE LET stored == IF Exceeds(new_balance, I128_MAX)
                       THEN wrapping_add(current_balance, pending)
                       ELSE new_balance
             st1 == _set_balance(st, user, stored) IN
         Ok([st1 EXCEPT !.PendingWinnings[user] = None], pending)

----------------------------------------------------------------------------
(* The host: a call that does not return Ok commits none of its writes.     *)

Commit(before, out) == IF out.res = "Ok" THEN out.st ELSE before

----------------------------------------------------------------------------
(* Inputs *)

Admins == {"admin"}
Oracles == {"oracle"}
Prices == 0..MaxPrice
Modes == {None, Some(0), Some(1), Some(2)}
Windows == 0..MaxWindow
Amounts == (0 - 1)..INITIAL_AMOUNT
Sides == {Up, Down}
PredictedPrices == {1, MAX_PRICE_SCALE, MAX_PRICE_SCALE + 1}

Init ==
    /\ storage = EmptyStorage
    /\ ledger = 0
    /\ rounds = 0
    /\ i128_max = FullWidth
    /\ u32_max = FullWidth
    /\ overflow_checks \in BOOLEAN

InitNarrow ==
    /\ storage = EmptyStorage
    /\ ledger = 0
    /\ rounds = 0
    /\ i128_max = Some(NarrowMax)
    /\ u32_max = Some(NarrowLedgerMax)
    /\ overflow_checks \in BOOLEAN

(* A call of an entry point at the current ledger: the host commits its     *)
(* writes or none of them, and the clock does not move.                     *)
Call(out) ==
    /\ storage' = Commit(storage, out)
    /\ UNCHANGED <<ledger, i128_max, u32_max, overflow_checks>>

Initialize ==
    \E admin \in Admins, oracle \in Oracles, auth \in BOOLEAN :
        /\ Call(initialize(storage, admin, oracle, auth))
        /\ UNCHANGED rounds

(* `rounds` counts the rounds created; max_rounds caps them. *)
CreateRound(max_rounds) ==
    \E start_price \in Prices, mode \in Modes, auth \in BOOLEAN :
        LET out == create_round(storage, ledger, start_price, mode, auth) IN
        /\ rounds < max_rounds
        /\ Call(out)
        /\ rounds' = IF out.res = "Ok" THEN rounds + 1 ELSE rounds

SetWindows ==
    \E bet_ledgers \in Windows, run_ledgers \in Windows, auth \in BOOLEAN :
        /\ Call(set_windows(storage, bet_ledgers, run_ledgers, auth))
        /\ UNCHANGED rounds

PlaceBet(users) ==
    \E user \in users, amount \in Amounts, side \in Sides, auth \in BOOLEAN :
        /\ Call(place_bet(storage, ledger, user, amount, side, auth))
        /\ UNCHANGED rounds

PlacePrecisionPrediction(users) ==
    \E user \in users, amount \in Amounts, predicted_price \in PredictedPrices, auth \in BOOLEAN :
        /\ Call(place_precision_prediction(storage, ledger, user, amount, predicted_price, auth))
        /\ UNCHANGED rounds

PredictPrice(users) ==
    \E user \in users, amount \in Amounts, guessed_price \in PredictedPrices, auth \in BOOLEAN :
        /\ Call(predict_price(storage, ledger, user, guessed_price, amount, auth))
        /\ UNCHANGED rounds

ResolveRound ==
    \E final_price \in Prices, auth \in BOOLEAN :
        /\ Call(resolve_round(storage, ledger, final_price, auth))
        /\ UNCHANGED rounds

ClaimWinnings(users) ==
    \E user \in users, auth \in BOOLEAN :
        /\ Call(claim_winnings(storage, user, auth))
        /\ UNCHANGED rounds

MintInitial(users) ==
    \E user \in users, auth \in BOOLEAN :
        /\ Call(mint_initial(storage, user, auth))
        /\ UNCHANGED rounds

(* The host clock: the ledger sequence number only grows. *)
AdvanceLedger(max_ledger) ==
    \E next \in (ledger + 1)..max_ledger :
        /\ ~Exceeds(next, U32_MAX)
        /\ ledger' = next
        /\ UNCHANGED <<storage, rounds, i128_max, u32_max, overflow_checks>>

Next ==
    \/ Initialize
    \/ CreateRound(MaxRounds)
    \/ SetWindows
    \/ PlaceBet(1..LifecycleUsers)
    \/ PlacePrecisionPrediction(1..LifecycleUsers)
    \/ PredictPrice(1..LifecycleUsers)
    \/ ResolveRound
    \/ ClaimWinnings(1..LifecycleUsers)
    \/ MintInitial(1..LifecycleUsers)
    \/ AdvanceLedger(MaxLedger)

NextPayout ==
    \/ Initialize
    \/ CreateRound(PayoutRounds)
    \/ SetWindows
    \/ PlaceBet(Users)
    \/ PlacePrecisionPrediction(Users)
    \/ PredictPrice(Users)
    \/ ResolveRound
    \/ ClaimWinnings(Users)
    \/ MintInitial(Users)
    \/ AdvanceLedger(PayoutLedger)

Spec == Init /\ [][Next]_vars

SpecPayout == Init /\ [][NextPayout]_vars

SpecNarrow == InitNarrow /\ [][NextPayout]_vars

----------------------------------------------------------------------------
(* Properties.  Each is stated on a reachable state and a call made in it:  *)
(* `out` is what the entry point returns there and Commit(storage, out) is  *)
(* the store the call leaves.                                               *)

ActiveRound == Unwrap(storage.ActiveRound)

StatsOf(st) == [u \in Users |-> get_user_stats(st, u)]
PendingOf(st) == [u \in Users |-> get_pending_winnings(st, u)]
BalanceOf(st) == [u \in Users |-> balance(st, u)]

RECURSIVE SumOver(_, _)
SumOver(f, S) ==
    IF S = {} THEN 0
    ELSE LET u == MinKey(S) IN f[u] + SumOver(f, S \ {u})

RecordsWin(before, after) ==
    /\ after.total_wins = before.total_wins + 1
    /\ after.current_streak = before.current_streak + 1
    /\ after.total_losses = before.total_losses

RecordsLoss(before, after) ==
    /\ after.total_losses = before.total_losses + 1
    /\ after.current_streak = 0
    /\ after.total_wins = before.total_wins

(* An Up/Down round is active and resolve_round(final_price) succeeds on it *)
(* with the price moved and somebody on the winning side.                   *)
DecisiveResolution(final_price) ==
    /\ resolve_round(storage, ledger, final_price, TRUE).res = "Ok"
    /\ ActiveRound.mode = UpDown
    /\ final_price # ActiveRound.price_start
    /\ (IF final_price > ActiveRound.price_start
        THEN ActiveRound.pool_up ELSE ActiveRound.pool_down) # 0

(* C1: when resolve_round succeeds on an Up/Down round whose price moved    *)
(* and whose winning pool is not 0, every position of the round on the      *)
(* winning side gains exactly amount + floor(amount * losing_pool /         *)
(* winning_pool) of pending winnings and records a win; every position on   *)
(* the losing side keeps its pending winnings and records a loss.           *)
C1_WinnersPaidProportionally ==
    \A final_price \in Prices :
        DecisiveResolution(final_price) =>
            LET after == Commit(storage, resolve_round(storage, ledger, final_price, TRUE))
                up_won == final_price > ActiveRound.price_start
                winning_side == IF up_won THEN Up ELSE Down
                winning_pool == IF up_won THEN ActiveRound.pool_up ELSE ActiveRound.pool_down
                losing_pool == IF up_won THEN ActiveRound.pool_down ELSE ActiveRound.pool_up
                recorded == get_updown_positions(storage) IN
            \A u \in DOMAIN recorded :
                IF recorded[u].side = winning_side
                THEN /\ get_pending_winnings(after, u) =
                            get_pending_winnings(storage, u) + recorded[u].amount
                            + ((recorded[u].amount * losing_pool) \div winning_pool)
                     /\ RecordsWin(get_user_stats(storage, u), get_user_stats(after, u))
                ELSE /\ get_pending_winnings(after, u) = get_pending_winnings(storage, u)
                     /\ RecordsLoss(get_user_stats(storage, u), get_user_stats(after, u))

(* Two winners and a loser, with a share that does not divide evenly. *)
C1_Witness ==
    \E final_price \in Prices :
        /\ DecisiveResolution(final_price)
        /\ LET up_won == final_price > ActiveRound.price_start
               winning_side == IF up_won THEN Up ELSE Down
               winning_pool == IF up_won THEN ActiveRound.pool_up ELSE ActiveRound.pool_down
               losing_pool == IF up_won THEN ActiveRound.pool_down ELSE ActiveRound.pool_up
               recorded == get_updown_positions(storage) IN
           /\ \E u \in DOMAIN recorded, v \in DOMAIN recorded :
                  /\ u # v
                  /\ recorded[u].side = winning_side
                  /\ recorded[v].side = winning_side
                  /\ (recorded[u].amount * losing_pool) % winning_pool # 0
           /\ \E w \in DOMAIN recorded : recorded[w].side # winning_side

(* C2: a successful resolve_round of an Up/Down round increases the sum of  *)
(* all accounts' pending winnings by at most pool_up + pool_down of the     *)
(* round it retires.                                                        *)
C2_NoValueCreated ==
    \A final_price \in Prices :
        LET out == resolve_round(storage, ledger, final_price, TRUE) IN
        (out.res = "Ok" /\ ActiveRound.mode = UpDown) =>
            SumOver(PendingOf(Commit(storage, out)), Users)
                - SumOver(PendingOf(storage), Users)
            <= ActiveRound.pool_up + ActiveRound.pool_down

(* C3: when create_round replaces a round that was never resolved, the      *)
(* stakes of the replaced round are abandoned: resolving the new round,     *)
(* in which nobody has staked, credits no pending winnings and records no   *)
(* win or loss.                                                             *)
C3_AbandonedStakesNeverSettled ==
    \A start_price \in Prices, mode \in Modes, final_price \in Prices :
        LET created == create_round(storage, ledger, start_price, mode, TRUE) IN
        (IsSome(storage.ActiveRound) /\ created.res = "Ok") =>
            LET replaced == Commit(storage, created)
                resolved == resolve_round(replaced, Unwrap(replaced.ActiveRound).end_ledger,
                                          final_price, TRUE)
                after == Commit(replaced, resolved) IN
            resolved.res = "Ok" =>
                /\ PendingOf(after) = PendingOf(storage)
                /\ StatsOf(after) = StatsOf(storage)

(* C4: when resolve_round succeeds on an Up/Down round at a final price     *)
(* equal to the start price, every staker of the round gains exactly the    *)
(* own stake of pending winnings, whatever the side, and no account's       *)
(* stats change.                                                            *)
C4_UnchangedPriceRefunds ==
    \A final_price \in Prices :
        LET out == resolve_round(storage, ledger, final_price, TRUE) IN
        (out.res = "Ok" /\ ActiveRound.mode = UpDown
                        /\ final_price = ActiveRound.price_start) =>
            LET after == Commit(storage, out)
                recorded == get_updown_positions(storage) IN
            /\ \A u \in DOMAIN recorded :
                   get_pending_winnings(after, u) =
                       get_pending_winnings(storage, u) + recorded[u].amount
            /\ StatsOf(after) = StatsOf(storage)

(* A refund to stakers on both sides, one of them with winnings pending. *)
C4_Witness ==
    /\ IsSome(storage.ActiveRound)
    /\ ActiveRound.mode = UpDown
    /\ resolve_round(storage, ledger, ActiveRound.price_start, TRUE).res = "Ok"
    /\ LET recorded == get_updown_positions(storage) IN
       \E u \in DOMAIN recorded, v \in DOMAIN recorded :
           /\ recorded[u].side = Up
           /\ recorded[v].side = Down
           /\ get_pending_winnings(storage, u) > 0

Distance(a, b) == IF a >= b THEN a - b ELSE b - a

(* C5: when resolve_round succeeds on a Precision round with a prediction,  *)
(* the predictions at the least |predicted_price - final_price| each gain   *)
(* floor(pot / winner_count) of pending winnings, pot the sum of all the    *)
(* amounts, and record a win; every other predictor gains nothing and       *)
(* records a loss.                                                          *)
C5_PrecisionClosestWins ==
    \A final_price \in Prices :
        LET out == resolve_round(storage, ledger, final_price, TRUE)
            predictions == get_precision_predictions(storage) IN
        (out.res = "Ok" /\ ActiveRound.mode = Precision /\ Len(predictions) >= 1) =>
            LET after == Commit(storage, out)
                idx == 1..Len(predictions)
                diff == [i \in idx |-> Distance(predictions[i].predicted_price, final_price)]
                winners == {i \in idx : \A j \in idx : diff[i] <= diff[j]}
                pot == SumOver([i \in idx |-> predictions[i].amount], idx)
                payout == pot \div Cardinality(winners) IN
            \A i \in idx :
                LET u == predictions[i].user IN
                IF i \in winners
                THEN /\ get_pending_winnings(after, u) = get_pending_winnings(storage, u) + payout
                     /\ RecordsWin(get_user_stats(storage, u), get_user_stats(after, u))
                ELSE /\ get_pending_winnings(after, u) = get_pending_winnings(storage, u)
                     /\ RecordsLoss(get_user_stats(storage, u), get_user_stats(after, u))

(* Every check of place_bet but the betting window passes. *)
BetOtherwiseValid(user, amount) ==
    /\ amount > 0
    /\ IsSome(storage.ActiveRound)
    /\ ActiveRound.mode = UpDown
    /\ balance(storage, user) >= amount
    /\ user \notin DOMAIN get_updown_positions(storage)

(* Every check of place_precision_prediction but the betting window passes. *)
PredictionOtherwiseValid(user, amount, predicted_price) ==
    /\ amount > 0
    /\ predicted_price <= MAX_PRICE_SCALE
    /\ IsSome(storage.ActiveRound)
    /\ ActiveRound.mode = Precision
    /\ balance(storage, user) >= amount
    /\ ~IsSome(get_user_precision_prediction(storage, user))

(* The stakes on record. *)
StakesOf(st) == <<st.UpDownPositions, st.Positions, st.PrecisionPositions>>

(* C6: place_bet and place_precision_prediction, every other check passing, *)
(* are accepted at each ledger below bet_end_ledger of the active round and *)
(* rejected with RoundEnded at bet_end_ledger and after it; no call at or   *)
(* after bet_end_ledger records a stake.                                    *)
C6_BettingWindow ==
    IsSome(storage.ActiveRound) =>
        \A user \in Users, amount \in Amounts :
            /\ \A side \in Sides, auth \in BOOLEAN :
                   LET out == place_bet(storage, ledger, user, amount, side, auth) IN
                   /\ (auth /\ BetOtherwiseValid(user, amount)) =>
                          IF ledger < ActiveRound.bet_end_ledger
                          THEN /\ out.res = "Ok"
                               /\ get_user_position(Commit(storage, out), user)
                                      = Some([amount |-> amount, side |-> side])
                          ELSE out.res = "RoundEnded"
                   /\ ledger >= ActiveRound.bet_end_ledger =>
                          StakesOf(Commit(storage, out)) = StakesOf(storage)
            /\ \A predicted_price \in PredictedPrices, auth \in BOOLEAN :
                   LET out == place_precision_prediction(storage, ledger, user, amount,
                                                         predicted_price, auth) IN
                   /\ (auth /\ PredictionOtherwiseValid(user, amount, predicted_price)) =>
                          IF ledger < ActiveRound.bet_end_ledger
                          THEN /\ out.res = "Ok"
                               /\ get_user_precision_prediction(Commit(storage, out), user)
                                      = Some([user |-> user,
                                              predicted_price |-> predicted_price,
                                              amount |-> amount])
                          ELSE out.res = "RoundEnded"
                   /\ ledger >= ActiveRound.bet_end_ledger =>
                          StakesOf(Commit(storage, out)) = StakesOf(storage)

(* The ledger at bet_end_ledger, a stake on record, and an account whose    *)
(* bet only the window turns down.                                          *)
C6_Witness ==
    /\ IsSome(storage.ActiveRound)
    /\ ledger = ActiveRound.bet_end_ledger
    /\ get_updown_positions(storage) # EmptyMap
    /\ \E user \in Users, amount \in Amounts :
           /\ BetOtherwiseValid(user, amount)
           /\ place_bet(storage, ledger, user, amount, Up, TRUE).res = "RoundEnded"

(* C7: resolve_round on the active round is rejected with RoundNotEnded at  *)
(* each ledger below end_ledger, and accepted at end_ledger and after it;   *)
(* no call below end_ledger changes the round or any stored state.          *)
C7_ResolutionWindow ==
    IsSome(storage.ActiveRound) =>
        \A final_price \in Prices, auth \in BOOLEAN :
            LET out == resolve_round(storage, ledger, final_price, auth) IN
            /\ (auth /\ final_price # 0) =>
                   IF ledger < ActiveRound.end_ledger
                   THEN out.res = "RoundNotEnded"
                   ELSE out.res = "Ok"
            /\ ledger < ActiveRound.end_ledger => Commit(storage, out) = storage

(* The ledger at end_ledger of a round with stakes on both sides. *)
C7_Witness ==
    /\ IsSome(storage.ActiveRound)
    /\ ledger = ActiveRound.end_ledger
    /\ ActiveRound.pool_up > 0
    /\ ActiveRound.pool_down > 0
    /\ \E final_price \in Prices :
           resolve_round(storage, ledger, final_price, TRUE).res = "Ok"

(* The modes create_round accepts. *)
ValidModes == {None, Some(0), Some(1)}

(* C8: after a successful resolve_round there is no active round, the       *)
(* Up/Down position map, the legacy Positions map and the Precision         *)
(* prediction list are empty, and create_round then succeeds in either      *)
(* mode.                                                                    *)
C8_ResolutionClearsRound ==
    \A final_price \in Prices :
        LET out == resolve_round(storage, ledger, final_price, TRUE) IN
        out.res = "Ok" =>
            LET after == Commit(storage, out) IN
            /\ get_active_round(after) = None
            /\ get_updown_positions(after) = EmptyMap
            /\ UnwrapOr(after.Positions, EmptyMap) = EmptyMap
            /\ get_precision_predictions(after) = <<>>
            /\ \A user \in Users :
                   /\ get_user_position(after, user) = None
                   /\ get_user_precision_prediction(after, user) = None
            /\ \A start_price \in Prices \ {0}, mode \in ValidModes, now \in ledger..MaxLedger :
                   create_round(after, now, start_price, mode, TRUE).res = "Ok"

(* A resolution that has stakes of the round and of a replaced round to     *)
(* clear.                                                                   *)
C8_Witness ==
    /\ IsSome(storage.ActiveRound)
    /\ IsSome(storage.Positions)
    /\ \/ /\ ActiveRound.mode = Precision
          /\ get_precision_predictions(storage) # <<>>
       \/ /\ ActiveRound.mode = UpDown
          /\ DOMAIN get_updown_positions(storage) # DOMAIN Unwrap(storage.Positions)
    /\ \E final_price \in Prices :
           resolve_round(storage, ledger, final_price, TRUE).res = "Ok"

(* C9: a round is resolved once: a resolve_round that follows a successful  *)
(* resolve_round with no create_round between them fails with               *)
(* NoActiveRound, and credits nothing; so does every resolve_round while no *)
(* round is active.                                                         *)
C9_RoundConsumedOnce ==
    /\ \A final_price \in Prices :
           LET first == resolve_round(storage, ledger, final_price, TRUE) IN
           first.res = "Ok" =>
               LET after == Commit(storage, first) IN
               \A again_price \in Prices, now \in ledger..MaxLedger, auth \in BOOLEAN :
                   LET second == resolve_round(after, now, again_price, auth) IN
                   /\ second.res # "Ok"
                   /\ (auth /\ again_price # 0) => second.res = "NoActiveRound"
                   /\ Commit(after, second) = after
    /\ ~IsSome(storage.ActiveRound) =>
           \A final_price \in Prices, auth \in BOOLEAN :
               LET out == resolve_round(storage, ledger, final_price, auth) IN
               /\ (auth /\ final_price # 0 /\ IsSome(storage.Oracle)) => out.res = "NoActiveRound"
               /\ PendingOf(Commit(storage, out)) = PendingOf(storage)

(* A round with a winner and a loser, about to be resolved. *)
C9_Witness ==
    /\ IsSome(storage.ActiveRound)
    /\ \E final_price \in Prices :
           /\ resolve_round(storage, ledger, final_price, TRUE).res = "Ok"
           /\ PendingOf(resolve_round(storage, ledger, final_price, TRUE).st) # PendingOf(storage)
           /\ StatsOf(resolve_round(storage, ledger, final_price, TRUE).st) # StatsOf(storage)

(* The result and the storage a call leaves, without the returned value. *)
Outcome(out) == [res |-> out.res, st |-> out.st]

(* What each public operation returns in the current state, over all the    *)
(* inputs.                                                                  *)
CallOutcomes ==
    {Outcome(initialize(storage, admin, oracle, auth)) :
        admin \in Admins, oracle \in Oracles, auth \in BOOLEAN}
    \cup {Outcome(create_round(storage, ledger, start_price, mode, auth)) :
        start_price \in Prices, mode \in Modes, auth \in BOOLEAN}
    \cup {Outcome(set_windows(storage, bet_ledgers, run_ledgers, auth)) :
        bet_ledgers \in Windows, run_ledgers \in Windows, auth \in BOOLEAN}
    \cup {Outcome(place_bet(storage, ledger, user, amount, side, auth)) :
        user \in Users, amount \in Amounts, side \in Sides, auth \in BOOLEAN}
    \cup {Outcome(place_precision_prediction(storage, ledger, user, amount, predicted_price, auth)) :
        user \in Users, amount \in Amounts, predicted_price \in PredictedPrices,
        auth \in BOOLEAN}
    \cup {Outcome(predict_price(storage, ledger, user, guessed_price, amount, auth)) :
        user \in Users, guessed_price \in PredictedPrices, amount \in Amounts,
        auth \in BOOLEAN}
    \cup {Outcome(resolve_round(storage, ledger, final_price, auth)) :
        final_price \in Prices, auth \in BOOLEAN}
    \cup {Outcome(claim_winnings(storage, user, auth)) : user \in Users, auth \in BOOLEAN}
    \cup {Outcome(mint_initial(storage, user, auth)) : user \in Users, auth \in BOOLEAN}

(* The failures that can follow a write of the same call. *)
ArithmeticFailures == {"Overflow", "Panic"}

(* C10: a public operation that returns an error leaves the whole           *)
(* persistent state as it was before the call; a validation failure         *)
(* returns before any write.                                                *)
C10_ErrorsLeaveStateUnchanged ==
    \A out \in CallOutcomes :
        out.res # "Ok" =>
            /\ Commit(storage, out) = storage
            /\ out.res \notin ArithmeticFailures => out.st = storage

(* An operation that fails after a write of its own, a create_round whose   *)
(* end ledger passes the limit of the ledger sequence, and an operation     *)
(* that fails in validation.                                                *)
C10_Witness ==
    /\ \E out \in CallOutcomes : out.res = "Overflow" /\ out.st # storage
    /\ \E start_price \in Prices \ {0} :
           create_round(storage, ledger, start_price, None, TRUE).res = "Overflow"
    /\ \E out \in CallOutcomes : out.res = "RoundNotEnded"

(* C11: an Overflow of the pool addition of place_bet comes after the       *)
(* debit is written, and an Overflow inside resolve_round can come after    *)
(* pending winnings and stats of earlier positions are written; the call    *)
(* commits none of these writes: no balance is debited, and no payout or    *)
(* stats update remains.                                                    *)
C11_OverflowCommitsNothing ==
    /\ \A user \in Users, amount \in Amounts, side \in Sides :
           LET out == place_bet(storage, ledger, user, amount, side, TRUE)
               pool == IF side = Up THEN ActiveRound.pool_up ELSE ActiveRound.pool_down IN
           /\ (/\ BetOtherwiseValid(user, amount)
               /\ ledger < ActiveRound.bet_end_ledger
               /\ Exceeds(pool + amount, I128_MAX)) =>
                  /\ out.res = "Overflow"
                  /\ balance(out.st, user) = balance(storage, user) - amount
           /\ out.res = "Overflow" =>
                  /\ Commit(storage, out) = storage
                  /\ balance(Commit(storage, out), user) = balance(storage, user)
    /\ IsSome(storage.ActiveRound) =>
           \A final_price \in Prices, now \in {ledger, ActiveRound.end_ledger} :
               LET out == resolve_round(storage, now, final_price, TRUE) IN
               out.res = "Overflow" =>
                   /\ Commit(storage, out) = storage
                   /\ PendingOf(Commit(storage, out)) = PendingOf(storage)
                   /\ StatsOf(Commit(storage, out)) = StatsOf(storage)

(* A round in which a bet overflows the pool after its debit, and whose     *)
(* resolution overflows after the stats of an earlier position are written. *)
C11_Witness ==
    /\ IsSome(storage.ActiveRound)
    /\ \E user \in Users, amount \in Amounts, side \in Sides :
           LET out == place_bet(storage, ledger, user, amount, side, TRUE) IN
           /\ out.res = "Overflow"
           /\ balance(out.st, user) < balance(storage, user)
    /\ \E final_price \in Prices :
           LET out == resolve_round(storage, ActiveRound.end_ledger, final_price, TRUE) IN
           /\ out.res = "Overflow"
           /\ StatsOf(out.st) # StatsOf(storage)

(* C12: mint_initial creates a balance of INITIAL_AMOUNT only for an        *)
(* account with no balance record; with a record, even one that wagers      *)
(* have reduced to 0, it returns the stored balance and changes nothing.    *)
(* Two mints in a row return the same balance, and no operation removes a   *)
(* balance record, so an account is minted at most once.                    *)
C12_MintOnce ==
    /\ \A user \in Users :
           LET out == mint_initial(storage, user, TRUE)
               after == Commit(storage, out)
               again == mint_initial(after, user, TRUE) IN
           /\ out.res = "Ok"
           /\ IF IsSome(storage.Balance[user])
              THEN /\ out.st = storage
                   /\ out.ret = Unwrap(storage.Balance[user])
              ELSE /\ out.st = [storage EXCEPT !.Balance[user] = Some(INITIAL_AMOUNT)]
                   /\ out.ret = INITIAL_AMOUNT
           /\ again.res = "Ok"
           /\ again.ret = out.ret
           /\ Commit(after, again) = after
    /\ \A out \in CallOutcomes, user \in Users :
           IsSome(storage.Balance[user]) => IsSome(Commit(storage, out).Balance[user])

(* An account whose wagers have taken its whole balance, minted again. *)
C12_Witness ==
    \E user \in Users :
        /\ storage.Balance[user] = Some(0)
        /\ mint_initial(storage, user, TRUE).ret = 0

(* C13: claim_winnings for an account with pending winnings p > 0 adds p    *)
(* to the balance, leaves pending winnings of 0 and returns p, and changes  *)
(* nothing else; with pending winnings 0 it returns 0 and changes nothing.  *)
(* A second claim right after a claim returns 0 and changes nothing.        *)
C13_ClaimCreditsOnce ==
    \A user \in Users :
        LET p == get_pending_winnings(storage, user)
            out == claim_winnings(storage, user, TRUE)
            after == Commit(storage, out)
            again == claim_winnings(after, user, TRUE) IN
        /\ out.res = "Ok"
        /\ IF p > 0
           THEN /\ out.ret = p
                /\ balance(after, user) = balance(storage, user) + p
                /\ get_pending_winnings(after, user) = 0
                /\ after = [storage EXCEPT !.Balance[user] = Some(balance(storage, user) + p),
                                           !.PendingWinnings[user] = None]
           ELSE /\ p = 0
                /\ out.ret = 0
                /\ out.st = storage
        /\ again.res = "Ok"
        /\ again.ret = 0
        /\ Commit(after, again) = after

(* The operations that take no stake, over all their inputs. *)
NonStakeOutcomes ==
    {Outcome(initialize(storage, admin, oracle, auth)) :
        admin \in Admins, oracle \in Oracles, auth \in BOOLEAN}
    \cup {Outcome(create_round(storage, ledger, start_price, mode, auth)) :
        start_price \in Prices, mode \in Modes, auth \in BOOLEAN}
    \cup {Outcome(set_windows(storage, bet_ledgers, run_ledgers, auth)) :
        bet_ledgers \in Windows, run_ledgers \in Windows, auth \in BOOLEAN}
    \cup {Outcome(resolve_round(storage, ledger, final_price, auth)) :
        final_price \in Prices, auth \in BOOLEAN}
    \cup {Outcome(claim_winnings(storage, user, auth)) : user \in Users, auth \in BOOLEAN}
    \cup {Outcome(mint_initial(storage, user, auth)) : user \in Users, auth \in BOOLEAN}

(* C14: every balance is >= 0 in every reachable state.  A stake of         *)
(* amount <= 0 is rejected with InvalidBetAmount and, every earlier check   *)
(* passing, a stake above the balance with InsufficientBalance; an          *)
(* accepted stake leaves a balance >= 0, and no other operation decreases   *)
(* a balance.                                                               *)
C14_BalancesNonNegative ==
    /\ \A user \in Users : balance(storage, user) >= 0
    /\ \A user \in Users, amount \in Amounts :
           /\ \A side \in Sides :
                  LET out == place_bet(storage, ledger, user, amount, side, TRUE) IN
                  /\ amount <= 0 => out.res = "InvalidBetAmount"
                  /\ (/\ amount > balance(storage, user)
                      /\ IsSome(storage.ActiveRound)
                      /\ ActiveRound.mode = UpDown
                      /\ ledger < ActiveRound.bet_end_ledger) =>
                         out.res = "InsufficientBalance"
                  /\ out.res = "Ok" =>
                         /\ 0 < amount
                         /\ amount <= balance(storage, user)
                         /\ balance(out.st, user) >= 0
           /\ \A predicted_price \in PredictedPrices :
                  LET out == place_precision_prediction(storage, ledger, user, amount,
                                                        predicted_price, TRUE) IN
                  /\ amount <= 0 => out.res = "InvalidBetAmount"
                  /\ (/\ amount > balance(storage, user)
                      /\ predicted_price <= MAX_PRICE_SCALE
                      /\ IsSome(storage.ActiveRound)
                      /\ ActiveRound.mode = Precision
                      /\ ledger < ActiveRound.bet_end_ledger) =>
                         out.res = "InsufficientBalance"
                  /\ out.res = "Ok" =>
                         /\ 0 < amount
                         /\ amount <= balance(storage, user)
                         /\ balance(out.st, user) >= 0
    /\ \A out \in NonStakeOutcomes, user \in Users :
           balance(Commit(storage, out), user) >= balance(storage, user)

(* The amounts of the recorded Up/Down positions on a side, summed. *)
SideTotal(st, side) ==
    LET positions == get_updown_positions(st)
        on_side == {u \in DOMAIN positions : positions[u].side = side} IN
    SumOver([u \in on_side |-> positions[u].amount], on_side)

(* C15: in every reachable state with an active Up/Down round, pool_up is   *)
(* the sum of the amounts of the Up positions of the Up/Down position map   *)
(* and pool_down the sum of the amounts of its Down positions.              *)
C15_PoolsMatchPositions ==
    (IsSome(storage.ActiveRound) /\ ActiveRound.mode = UpDown) =>
        /\ ActiveRound.pool_up = SideTotal(storage, Up)
        /\ ActiveRound.pool_down = SideTotal(storage, Down)

(* A second round, with stakes on both sides. *)
C15_Witness ==
    /\ IsSome(storage.ActiveRound)
    /\ ActiveRound.mode = UpDown
    /\ rounds = 2
    /\ ActiveRound.pool_up > 0
    /\ ActiveRound.pool_down > 0
    /\ DOMAIN UnwrapOr(storage.Positions, EmptyMap) # {}

(* C16: a successful place_bet(account, amount, side) takes exactly amount  *)
(* from the account's balance, records the position {amount, side} for the  *)
(* account, adds exactly amount to the pool of the side, and leaves the     *)
(* other pool, every other account's balance and every other account's      *)
(* position as they were.                                                   *)
C16_BetEffects ==
    \A user \in Users, amount \in Amounts, side \in Sides :
        LET out == place_bet(storage, ledger, user, amount, side, TRUE)
            after == Commit(storage, out)
            round == Unwrap(after.ActiveRound) IN
        out.res = "Ok" =>
            /\ balance(after, user) = balance(storage, user) - amount
            /\ get_user_position(after, user) = Some([amount |-> amount, side |-> side])
            /\ IF side = Up
               THEN /\ round.pool_up = ActiveRound.pool_up + amount
                    /\ round.pool_down = ActiveRound.pool_down
               ELSE /\ round.pool_down = ActiveRound.pool_down + amount
                    /\ round.pool_up = ActiveRound.pool_up
            /\ \A other \in Users \ {user} :
                   /\ balance(after, other) = balance(storage, other)
                   /\ get_user_position(after, other) = get_user_position(storage, other)

(* A bet accepted in a round where another account holds a position on the  *)
(* other side.                                                              *)
C16_Witness ==
    \E user \in Users, other \in Users, amount \in Amounts :
        /\ other # user
        /\ get_user_position(storage, other) = Some([amount |-> INITIAL_AMOUNT, side |-> Down])
        /\ balance(storage, user) > amount
        /\ place_bet(storage, ledger, user, amount, Up, TRUE).res = "Ok"

(* No account appears twice in the prediction list. *)
OnePredictionEach(predictions) ==
    \A i \in 1..Len(predictions), j \in 1..Len(predictions) :
        predictions[i].user = predictions[j].user => i = j

(* C17: in every reachable state an account has at most one entry in the    *)
(* Up/Down position map, which is keyed by account, and at most one entry   *)
(* in the Precision prediction list; within the bet window a second         *)
(* place_bet or place_precision_prediction of an account with a stake in    *)
(* the round fails, with AlreadyBet when the stake is funded, and debits    *)
(* nothing.                                                                 *)
C17_OneStakePerAccount ==
    /\ OnePredictionEach(get_precision_predictions(storage))
    /\ \A user \in DOMAIN get_updown_positions(storage) :
           get_user_position(storage, user) = Some(get_updown_positions(storage)[user])
    /\ (IsSome(storage.ActiveRound) /\ ledger < ActiveRound.bet_end_ledger) =>
           \A user \in Users, amount \in Amounts :
               /\ IsSome(get_user_position(storage, user)) =>
                      \A side \in Sides :
                          LET out == place_bet(storage, ledger, user, amount, side, TRUE) IN
                          /\ out.res # "Ok"
                          /\ out.st = storage
                          /\ (0 < amount /\ amount <= balance(storage, user)) =>
                                 out.res = "AlreadyBet"
               /\ IsSome(get_user_precision_prediction(storage, user)) =>
                      \A predicted_price \in PredictedPrices :
                          LET out == place_precision_prediction(storage, ledger, user, amount,
                                                                predicted_price, TRUE) IN
                          /\ out.res # "Ok"
                          /\ out.st = storage
                          /\ (/\ 0 < amount
                              /\ amount <= balance(storage, user)
                              /\ predicted_price <= MAX_PRICE_SCALE) =>
                                 out.res = "AlreadyBet"

(* An open Precision round whose second predictor can fund another stake. *)
C17_Witness ==
    /\ IsSome(storage.ActiveRound)
    /\ ledger < ActiveRound.bet_end_ledger
    /\ Len(get_precision_predictions(storage)) = 2
    /\ LET user == get_precision_predictions(storage)[2].user IN
       /\ balance(storage, user) > 0
       /\ place_precision_prediction(storage, ledger, user, 1, 1, TRUE).res = "AlreadyBet"

(* C18: the mode of the round gates the intake: place_bet on a Precision    *)
(* round and place_precision_prediction on an Up/Down round fail with       *)
(* WrongModeForPrediction and change nothing, so an Up/Down round holds no  *)
(* Precision prediction and a Precision round holds no entry in the         *)
(* Up/Down position map and has pools of 0.                                 *)
C18_ModeGatesIntake ==
    IsSome(storage.ActiveRound) =>
        /\ ActiveRound.mode = UpDown =>
               /\ get_precision_predictions(storage) = <<>>
               /\ \A user \in Users, amount \in Amounts, predicted_price \in PredictedPrices :
                      LET out == place_precision_prediction(storage, ledger, user, amount,
                                                            predicted_price, TRUE) IN
                      /\ out.res # "Ok"
                      /\ out.st = storage
                      /\ (0 < amount /\ predicted_price <= MAX_PRICE_SCALE) =>
                             out.res = "WrongModeForPrediction"
        /\ ActiveRound.mode = Precision =>
               /\ get_updown_positions(storage) = EmptyMap
               /\ ActiveRound.pool_up = 0
               /\ ActiveRound.pool_down = 0
               /\ \A user \in Users, amount \in Amounts, side \in Sides :
                      LET out == place_bet(storage, ledger, user, amount, side, TRUE) IN
                      /\ out.res # "Ok"
                      /\ out.st = storage
                      /\ 0 < amount => out.res = "WrongModeForPrediction"

(* A second round, open and in Precision mode, with a prediction, and an    *)
(* account whose bet only the mode turns down.                              *)
C18_Witness ==
    /\ IsSome(storage.ActiveRound)
    /\ ActiveRound.mode = Precision
    /\ rounds = 2
    /\ ledger < ActiveRound.bet_end_ledger
    /\ get_precision_predictions(storage) # <<>>
    /\ \E user \in Users :
           /\ balance(storage, user) > 0
           /\ ~IsSome(get_user_precision_prediction(storage, user))
           /\ place_bet(storage, ledger, user, 1, Up, TRUE).res = "WrongModeForPrediction"

(* The stored windows are both set or both unset, and 0 < bet < run. *)
WindowsWellFormed(st) ==
    /\ IsSome(st.BetWindowLedgers) <=> IsSome(st.RunWindowLedgers)
    /\ IsSome(st.BetWindowLedgers) =>
           /\ 0 < Unwrap(st.BetWindowLedgers)
           /\ Unwrap(st.BetWindowLedgers) < Unwrap(st.RunWindowLedgers)

(* The stored windows. *)
WindowsOf(st) == <<st.BetWindowLedgers, st.RunWindowLedgers>>

(* C19: set_windows(bet_window, run_window) fails with InvalidDuration and  *)
(* leaves the stored windows unchanged when bet_window = 0, run_window = 0  *)
(* or bet_window >= run_window, and stores both windows otherwise; the      *)
(* stored windows satisfy 0 < bet_window < run_window in every reachable    *)
(* state.                                                                   *)
C19_WindowsValidated ==
    /\ WindowsWellFormed(storage)
    /\ \A bet_ledgers \in Windows, run_ledgers \in Windows, auth \in BOOLEAN :
           LET out == set_windows(storage, bet_ledgers, run_ledgers, auth) IN
           /\ (/\ IsSome(storage.Admin)
               /\ auth
               /\ (bet_ledgers = 0 \/ run_ledgers = 0 \/ bet_ledgers >= run_ledgers)) =>
                  /\ out.res = "InvalidDuration"
                  /\ out.st = storage
           /\ out.res = "Ok" =>
                  /\ 0 < bet_ledgers
                  /\ bet_ledgers < run_ledgers
                  /\ WindowsOf(out.st) = <<Some(bet_ledgers), Some(run_ledgers)>>
           /\ out.res # "Ok" => WindowsOf(Commit(storage, out)) = WindowsOf(storage)

(* Windows that a set_windows has changed from the defaults, and a          *)
(* set_windows with equal windows turned down.                              *)
C19_Witness ==
    /\ IsSome(storage.BetWindowLedgers)
    /\ WindowsOf(storage) # <<Some(DEFAULT_BET_WINDOW), Some(DEFAULT_RUN_WINDOW)>>
    /\ \E w \in Windows \ {0} :
           set_windows(storage, w, w, TRUE).res = "InvalidDuration"

(* The calls that can store windows: set_windows and initialize. *)
WindowOutcomes ==
    {Outcome(set_windows(storage, bet_ledgers, run_ledgers, auth)) :
        bet_ledgers \in Windows, run_ledgers \in Windows, auth \in BOOLEAN}
    \cup {Outcome(initialize(storage, admin, oracle, auth)) :
        admin \in Admins, oracle \in Oracles, auth \in BOOLEAN}

(* The round has the ledger as start_ledger and the two windows added to it. *)
RoundSpans(round, now, bet_window, run_window) ==
    /\ round.start_ledger = now
    /\ round.bet_end_ledger = now + bet_window
    /\ round.end_ledger = now + run_window

(* C20: a successful create_round installs a round with start_ledger the    *)
(* ledger sequence of the call, bet_end_ledger = start_ledger + bet_window  *)
(* and end_ledger = start_ledger + run_window, the windows being those of   *)
(* the last accepted set_windows, or 6 and 12 when there was none: the      *)
(* windows are stored by initialize as 6 and 12, replaced by an accepted    *)
(* set_windows, and changed by no other call.                               *)
C20_RoundWindows ==
    /\ IsSome(storage.Admin) => IsSome(storage.BetWindowLedgers)
    /\ \A start_price \in Prices, mode \in Modes :
           /\ LET out == create_round(storage, ledger, start_price, mode, TRUE) IN
              out.res = "Ok" =>
                  RoundSpans(Unwrap(out.st.ActiveRound), ledger,
                             Unwrap(storage.BetWindowLedgers),
                             Unwrap(storage.RunWindowLedgers))
           /\ \A bet_ledgers \in Windows, run_ledgers \in Windows :
                  LET set == set_windows(storage, bet_ledgers, run_ledgers, TRUE)
                      out == create_round(Commit(storage, set), ledger, start_price, mode, TRUE) IN
                  (set.res = "Ok" /\ out.res = "Ok") =>
                      RoundSpans(Unwrap(out.st.ActiveRound), ledger, bet_ledgers, run_ledgers)
           /\ \A admin \in Admins, oracle \in Oracles :
                  LET init == initialize(storage, admin, oracle, TRUE)
                      out == create_round(Commit(storage, init), ledger, start_price, mode, TRUE) IN
                  (init.res = "Ok" /\ out.res = "Ok") =>
                      RoundSpans(Unwrap(out.st.ActiveRound), ledger,
                                 DEFAULT_BET_WINDOW, DEFAULT_RUN_WINDOW)
    /\ \A out \in CallOutcomes :
           WindowsOf(Commit(storage, out)) # WindowsOf(storage) => out \in WindowOutcomes

(* A round created after the ledger has moved, under windows that a         *)
(* set_windows has changed from the defaults.                               *)
C20_Witness ==
    /\ ledger > 0
    /\ IsSome(storage.BetWindowLedgers)
    /\ WindowsOf(storage) # <<Some(DEFAULT_BET_WINDOW), Some(DEFAULT_RUN_WINDOW)>>
    /\ create_round(storage, ledger, 1, None, TRUE).res = "Ok"

(* The terms of a round that are fixed at its creation. *)
RoundTerms(round) ==
    <<round.mode, round.price_start, round.start_ledger, round.bet_end_ledger, round.end_ledger>>

(* The calls that act while a round is active without creating or           *)
(* resolving one, over all their inputs.                                    *)
RoundKeepingOutcomes ==
    {Outcome(set_windows(storage, bet_ledgers, run_ledgers, auth)) :
        bet_ledgers \in Windows, run_ledgers \in Windows, auth \in BOOLEAN}
    \cup {Outcome(place_bet(storage, ledger, user, amount, side, auth)) :
        user \in Users, amount \in Amounts, side \in Sides, auth \in BOOLEAN}
    \cup {Outcome(place_precision_prediction(storage, ledger, user, amount, predicted_price, auth)) :
        user \in Users, amount \in Amounts, predicted_price \in PredictedPrices,
        auth \in BOOLEAN}
    \cup {Outcome(predict_price(storage, ledger, user, guessed_price, amount, auth)) :
        user \in Users, guessed_price \in PredictedPrices, amount \in Amounts,
        auth \in BOOLEAN}
    \cup {Outcome(claim_winnings(storage, user, auth)) : user \in Users, auth \in BOOLEAN}
    \cup {Outcome(mint_initial(storage, user, auth)) : user \in Users, auth \in BOOLEAN}

(* C21: while a round is active, set_windows, place_bet,                    *)
(* place_precision_prediction, mint_initial and claim_winnings leave the    *)
(* round active with its mode, price_start, start_ledger, bet_end_ledger    *)
(* and end_ledger as they were; an accepted set_windows right after a       *)
(* create_round leaves the terms create_round set, and only a round created *)
(* after it spans the new windows.                                          *)
C21_RoundTermsFixed ==
    /\ IsSome(storage.ActiveRound) =>
           \A out \in RoundKeepingOutcomes :
               /\ IsSome(out.st.ActiveRound)
               /\ RoundTerms(Unwrap(out.st.ActiveRound)) = RoundTerms(ActiveRound)
               /\ IsSome(Commit(storage, out).ActiveRound)
               /\ RoundTerms(Unwrap(Commit(storage, out).ActiveRound)) = RoundTerms(ActiveRound)
    /\ \A start_price \in Prices, mode \in Modes,
          bet_ledgers \in Windows, run_ledgers \in Windows :
           LET created == create_round(storage, ledger, start_price, mode, TRUE)
               set == set_windows(Commit(storage, created), bet_ledgers, run_ledgers, TRUE)
               after == Commit(Commit(storage, created), set)
               next == create_round(after, ledger, start_price, mode, TRUE) IN
           (created.res = "Ok" /\ set.res = "Ok") =>
               /\ RoundTerms(Unwrap(after.ActiveRound)) =
                      <<IF UnwrapOr(mode, 0) = 0 THEN UpDown ELSE Precision,
                        start_price, ledger,
                        ledger + Unwrap(storage.BetWindowLedgers),
                        ledger + Unwrap(storage.RunWindowLedgers)>>
               /\ next.res = "Ok"
               /\ RoundSpans(Unwrap(next.st.ActiveRound), ledger, bet_ledgers, run_ledgers)

(* A round with a stake, created under windows that a set_windows has       *)
(* since replaced.                                                          *)
C21_Witness ==
    /\ IsSome(storage.ActiveRound)
    /\ IsSome(storage.BetWindowLedgers)
    /\ ActiveRound.bet_end_ledger - ActiveRound.start_ledger # Unwrap(storage.BetWindowLedgers)
    /\ ActiveRound.pool_up > 0
    /\ \E bet_ledgers \in Windows, run_ledgers \in Windows :
           set_windows(storage, bet_ledgers, run_ledgers, TRUE).res = "Ok"

(* The addresses a caller can pass to initialize. *)
Identities == Admins \cup Oracles \cup {"other"}

(* C22: initialize succeeds at most once: with the Admin set, every         *)
(* initialize, whatever addresses it names, fails, with AlreadyInitialized  *)
(* when authorized, and writes nothing; with no Admin set an authorized     *)
(* initialize stores the Admin and the Oracle it names.  Once stored, the   *)
(* Admin and the Oracle are changed by no operation.                        *)
C22_InitializeOnce ==
    /\ IsSome(storage.Admin) <=> IsSome(storage.Oracle)
    /\ \A admin \in Identities, oracle \in Identities, auth \in BOOLEAN :
           LET out == initialize(storage, admin, oracle, auth) IN
           IF IsSome(storage.Admin)
           THEN /\ out.res # "Ok"
                /\ auth => out.res = "AlreadyInitialized"
                /\ out.st = storage
                /\ Commit(storage, out) = storage
           ELSE auth =>
                /\ out.res = "Ok"
                /\ out.st.Admin = Some(admin)
                /\ out.st.Oracle = Some(oracle)
                /\ \A admin2 \in Identities, oracle2 \in Identities :
                       LET again == initialize(Commit(storage, out), admin2, oracle2, TRUE) IN
                       /\ again.res = "AlreadyInitialized"
                       /\ Commit(Commit(storage, out), again) = Commit(storage, out)
    /\ IsSome(storage.Admin) =>
           \A out \in CallOutcomes :
               /\ out.st.Admin = storage.Admin
               /\ out.st.Oracle = storage.Oracle
               /\ Commit(storage, out).Admin = storage.Admin
               /\ Commit(storage, out).Oracle = storage.Oracle

(* A contract with a round in progress and changed windows, initialized     *)
(* again under other addresses.                                             *)
C22_Witness ==
    /\ storage.Admin = Some("admin")
    /\ IsSome(storage.ActiveRound)
    /\ storage.BetWindowLedgers # Some(DEFAULT_BET_WINDOW)
    /\ initialize(storage, "other", "other", TRUE).res = "AlreadyInitialized"

(* C23: the active round is a single slot, so at most one round exists.  A  *)
(* create_round that the Admin authorizes with a price above 0 and a valid  *)
(* mode succeeds whether or not a round is active, resolved or not; the     *)
(* round it installs takes the place of the active one, has                 *)
(* pool_up = pool_down = 0, and the Up/Down position map and the Precision  *)
(* prediction list are empty right after it.                                *)
C23_CreateRoundReplaces ==
    /\ Len(storage.ActiveRound) <= 1
    /\ \A start_price \in Prices, mode \in Modes :
           LET out == create_round(storage, ledger, start_price, mode, TRUE)
               after == Commit(storage, out) IN
           /\ (IsSome(storage.Admin) /\ start_price # 0 /\ mode \in ValidModes) =>
                  out.res = "Ok"
           /\ out.res = "Ok" =>
                  /\ IsSome(after.ActiveRound)
                  /\ Unwrap(after.ActiveRound).price_start = start_price
                  /\ Unwrap(after.ActiveRound).start_ledger = ledger
                  /\ Unwrap(after.ActiveRound).mode =
                         (IF UnwrapOr(mode, 0) = 0 THEN UpDown ELSE Precision)
                  /\ Unwrap(after.ActiveRound).pool_up = 0
                  /\ Unwrap(after.ActiveRound).pool_down = 0
                  /\ get_updown_positions(after) = EmptyMap
                  /\ get_precision_predictions(after) = <<>>
                  /\ \A user \in Users :
                         /\ get_user_position(after, user) = None
                         /\ get_user_precision_prediction(after, user) = None

(* An unresolved Precision round with two predictions, replaced by an       *)
(* Up/Down round at a later ledger.                                         *)
C23_Witness ==
    /\ IsSome(storage.ActiveRound)
    /\ ActiveRound.mode = Precision
    /\ Len(get_precision_predictions(storage)) = 2
    /\ ledger > ActiveRound.start_ledger
    /\ create_round(storage, ledger, 1, Some(0), TRUE).res = "Ok"

(* The calls made for no account, over all their inputs. *)
AccountlessOutcomes ==
    {Outcome(initialize(storage, admin, oracle, auth)) :
        admin \in Admins, oracle \in Oracles, auth \in BOOLEAN}
    \cup {Outcome(create_round(storage, ledger, start_price, mode, auth)) :
        start_price \in Prices, mode \in Modes, auth \in BOOLEAN}
    \cup {Outcome(set_windows(storage, bet_ledgers, run_ledgers, auth)) :
        bet_ledgers \in Windows, run_ledgers \in Windows, auth \in BOOLEAN}
    \cup {Outcome(resolve_round(storage, ledger, final_price, auth)) :
        final_price \in Prices, auth \in BOOLEAN}

(* What the calls made for `user` return, over all their other inputs. *)
AccountOutcomes(user) ==
    {Outcome(place_bet(storage, ledger, user, amount, side, auth)) :
        amount \in Amounts, side \in Sides, auth \in BOOLEAN}
    \cup {Outcome(place_precision_prediction(storage, ledger, user, amount, predicted_price, auth)) :
        amount \in Amounts, predicted_price \in PredictedPrices, auth \in BOOLEAN}
    \cup {Outcome(predict_price(storage, ledger, user, guessed_price, amount, auth)) :
        guessed_price \in PredictedPrices, amount \in Amounts, auth \in BOOLEAN}
    \cup {Outcome(claim_winnings(storage, user, auth)) : auth \in BOOLEAN}
    \cup {Outcome(mint_initial(storage, user, auth)) : auth \in BOOLEAN}

(* C24: initialize, set_windows, create_round and resolve_round write no    *)
(* balance record.  A call made for an account writes no balance record of  *)
(* another account, and changes its own only when it succeeds: mint_initial *)
(* creates the record, place_bet and place_precision_prediction take the    *)
(* stake from it, claim_winnings adds the pending winnings to it.  No call  *)
(* deletes a balance record.                                                *)
C24_BalanceFrame ==
    /\ \A out \in AccountlessOutcomes :
           /\ out.st.Balance = storage.Balance
           /\ Commit(storage, out).Balance = storage.Balance
    /\ \A user \in Users :
           /\ \A out \in AccountOutcomes(user) :
                  /\ \A other \in Users \ {user} :
                         /\ out.st.Balance[other] = storage.Balance[other]
                         /\ Commit(storage, out).Balance[other] = storage.Balance[other]
                  /\ out.res # "Ok" => Commit(storage, out).Balance = storage.Balance
                  /\ IsSome(storage.Balance[user]) => IsSome(Commit(storage, out).Balance[user])
           /\ LET out == mint_initial(storage, user, TRUE) IN
              Commit(storage, out).Balance[user] =
                  (IF IsSome(storage.Balance[user]) THEN storage.Balance[user]
                   ELSE Some(INITIAL_AMOUNT))
           /\ LET out == claim_winnings(storage, user, TRUE)
                  pending == get_pending_winnings(storage, user) IN
              Commit(storage, out).Balance[user] =
                  (IF out.res = "Ok" /\ pending # 0
                   THEN Some(balance(storage, user) + pending)
                   ELSE storage.Balance[user])
           /\ \A amount \in Amounts :
                  /\ \A side \in Sides :
                         LET out == place_bet(storage, ledger, user, amount, side, TRUE) IN
                         Commit(storage, out).Balance[user] =
                             (IF out.res = "Ok" THEN Some(balance(storage, user) - amount)
                              ELSE storage.Balance[user])
                  /\ \A predicted_price \in PredictedPrices :
                         LET out == place_precision_prediction(storage, ledger, user, amount,
                                                               predicted_price, TRUE) IN
                         Commit(storage, out).Balance[user] =
                             (IF out.res = "Ok" THEN Some(balance(storage, user) - amount)
                              ELSE storage.Balance[user])

(* What each public operation returns in the current state when the address *)
(* it requires has not authorized the call: the `admin` argument of         *)
(* initialize, the stored Admin for create_round and set_windows, the       *)
(* stored Oracle for resolve_round, the `user` argument for the rest.       *)
UnauthorizedOutcomes ==
    {Outcome(initialize(storage, admin, oracle, FALSE)) :
        admin \in Identities, oracle \in Identities}
    \cup {Outcome(create_round(storage, ledger, start_price, mode, FALSE)) :
        start_price \in Prices, mode \in Modes}
    \cup {Outcome(set_windows(storage, bet_ledgers, run_ledgers, FALSE)) :
        bet_ledgers \in Windows, run_ledgers \in Windows}
    \cup {Outcome(place_bet(storage, ledger, user, amount, side, FALSE)) :
        user \in Users, amount \in Amounts, side \in Sides}
    \cup {Outcome(place_precision_prediction(storage, ledger, user, amount, predicted_price, FALSE)) :
        user \in Users, amount \in Amounts, predicted_price \in PredictedPrices}
    \cup {Outcome(predict_price(storage, ledger, user, guessed_price, amount, FALSE)) :
        user \in Users, guessed_price \in PredictedPrices, amount \in Amounts}
    \cup {Outcome(resolve_round(storage, now, final_price, FALSE)) :
        final_price \in Prices, now \in ledger..MaxLedger}
    \cup {Outcome(claim_winnings(storage, user, FALSE)) : user \in Users}
    \cup {Outcome(mint_initial(storage, user, FALSE)) : user \in Users}

(* C25: a call that the required address has not authorized never           *)
(* succeeds and writes nothing: initialize, create_round and set_windows    *)
(* without the Admin, resolve_round without the stored Oracle, and          *)
(* mint_initial, place_bet, place_precision_prediction and claim_winnings   *)
(* without the account they name leave the storage as it was.               *)
C25_UnauthorizedChangesNothing ==
    \A out \in UnauthorizedOutcomes :
        /\ out.res # "Ok"
        /\ out.st = storage
        /\ Commit(storage, out) = storage

(* A state in which the Oracle's resolve_round, an account's claim and mint *)
(* and the Admin's set_windows and create_round would each change the       *)
(* storage.                                                                 *)
C25_Witness ==
    /\ \E final_price \in Prices :
           LET out == resolve_round(storage, ledger, final_price, TRUE) IN
           out.res = "Ok" /\ PendingOf(out.st) # PendingOf(storage)
    /\ \E user \in Users :
           LET out == claim_winnings(storage, user, TRUE) IN
           out.res = "Ok" /\ out.st # storage
    /\ \E user \in Users :
           LET out == mint_initial(storage, user, TRUE) IN
           out.res = "Ok" /\ out.st # storage
    /\ \E bet_ledgers \in Windows, run_ledgers \in Windows :
           LET out == set_windows(storage, bet_ledgers, run_ledgers, TRUE) IN
           out.res = "Ok"
    /\ create_round(storage, ledger, 1, None, TRUE).res = "Ok"

(* C26: create_round with start_price 0 fails with InvalidPrice, and with a *)
(* price above 0 and a mode selector outside {0, 1} with InvalidMode,       *)
(* whoever calls; either failure installs no round and clears nothing.  A   *)
(* successful create_round with selector 0 or no selector installs an       *)
(* Up/Down round, with selector 1 a Precision round.                        *)
C26_CreateRoundValidation ==
    \A start_price \in Prices, mode \in Modes, auth \in BOOLEAN :
        LET out == create_round(storage, ledger, start_price, mode, auth) IN
        /\ start_price = 0 =>
               /\ out.res = "InvalidPrice"
               /\ out.st = storage
        /\ (start_price # 0 /\ mode \notin ValidModes) =>
               /\ out.res = "InvalidMode"
               /\ out.st = storage
        /\ out.res \in {"InvalidPrice", "InvalidMode"} =>
               /\ Commit(storage, out).ActiveRound = storage.ActiveRound
               /\ StakesOf(Commit(storage, out)) = StakesOf(storage)
        /\ out.res = "Ok" =>
               /\ start_price # 0
               /\ mode \in ValidModes
               /\ Unwrap(out.st.ActiveRound).mode =
                      (IF mode \in {None, Some(0)} THEN UpDown ELSE Precision)

(* A round with a stake in progress when the Admin calls create_round with  *)
(* price 0 and with selector 2.                                             *)
C26_Witness ==
    /\ IsSome(storage.ActiveRound)
    /\ get_updown_positions(storage) # EmptyMap
    /\ create_round(storage, ledger, 0, Some(1), TRUE).res = "InvalidPrice"
    /\ create_round(storage, ledger, 1, Some(2), TRUE).res = "InvalidMode"
    /\ create_round(storage, ledger, 1, Some(1), TRUE).res = "Ok"

(* C27: before initialize has succeeded, create_round with a price above 0  *)
(* and a valid mode and set_windows with any windows return the error       *)
(* AdminNotSet, and resolve_round with a price above 0 returns the error    *)
(* OracleNotSet, whoever calls; each returns before any write, so the       *)
(* storage is as it was, and none aborts.                                   *)
C27_UninitializedTypedErrors ==
    ~IsSome(storage.Admin) =>
        /\ ~IsSome(storage.Oracle)
        /\ \A auth \in BOOLEAN :
               /\ \A start_price \in Prices \ {0}, mode \in ValidModes :
                      LET out == create_round(storage, ledger, start_price, mode, auth) IN
                      /\ out.res = "AdminNotSet"
                      /\ out.st = storage
                      /\ Commit(storage, out) = storage
               /\ \A bet_ledgers \in Windows, run_ledgers \in Windows :
                      LET out == set_windows(storage, bet_ledgers, run_ledgers, auth) IN
                      /\ out.res = "AdminNotSet"
                      /\ out.st = storage
                      /\ Commit(storage, out) = storage
               /\ \A final_price \in Prices \ {0}, now \in ledger..MaxLedger :
                      LET out == resolve_round(storage, now, final_price, auth) IN
                      /\ out.res = "OracleNotSet"
                      /\ out.st = storage
                      /\ Commit(storage, out) = storage

(* A contract not yet initialized, at a later ledger, with an account       *)
(* already minted.                                                          *)
C27_Witness ==
    /\ ~IsSome(storage.Admin)
    /\ ledger > 0
    /\ \E user \in Users : IsSome(storage.Balance[user])
    /\ create_round(storage, ledger, 1, None, TRUE).res = "AdminNotSet"
    /\ set_windows(storage, 1, 2, TRUE).res = "AdminNotSet"
    /\ resolve_round(storage, ledger, 1, TRUE).res = "OracleNotSet"

(* C28: a successful place_precision_prediction(account, amount,            *)
(* predicted_price) takes exactly amount from the account's balance and     *)
(* puts {account, predicted_price, amount} at the end of the prediction     *)
(* list, every earlier entry keeping its content and its place; pool_up,    *)
(* pool_down, every other account's balance and the rest of the storage     *)
(* stay as they were.                                                       *)
C28_PredictionEffects ==
    \A user \in Users, amount \in Amounts, predicted_price \in PredictedPrices :
        LET out == place_precision_prediction(storage, ledger, user, amount,
                                              predicted_price, TRUE)
            after == Commit(storage, out)
            before_list == get_precision_predictions(storage)
            after_list == get_precision_predictions(after) IN
        out.res = "Ok" =>
            /\ balance(after, user) = balance(storage, user) - amount
            /\ Len(after_list) = Len(before_list) + 1
            /\ after_list[Len(after_list)] =
                   [user |-> user, predicted_price |-> predicted_price, amount |-> amount]
            /\ \A i \in 1..Len(before_list) : after_list[i] = before_list[i]
            /\ Unwrap(after.ActiveRound).pool_up = ActiveRound.pool_up
            /\ Unwrap(after.ActiveRound).pool_down = ActiveRound.pool_down
            /\ \A other \in Users \ {user} : balance(after, other) = balance(storage, other)
            /\ after = [storage EXCEPT !.Balance[user] = Some(balance(storage, user) - amount),
                                       !.PrecisionPositions = Some(after_list)]

(* A third prediction, at another price and amount than the first on the   *)
(* list, by an account that keeps part of its balance.                      *)
C28_Witness ==
    /\ Len(get_precision_predictions(storage)) = 2
    /\ get_precision_predictions(storage)[1] # get_precision_predictions(storage)[2]
    /\ get_precision_predictions(storage)[1].predicted_price = MAX_PRICE_SCALE
    /\ get_precision_predictions(storage)[1].amount = INITIAL_AMOUNT
    /\ \E user \in Users :
           /\ balance(storage, user) > 1
           /\ place_precision_prediction(storage, ledger, user, 1, 1, TRUE).res = "Ok"

(* C29: place_precision_prediction, and predict_price with it, returns      *)
(* InvalidPriceScale for an authorized call with amount > 0 and a           *)
(* predicted_price above MAX_PRICE_SCALE = 99,999,999, and no call with     *)
(* such a price succeeds or writes anything; a prediction at                *)
(* MAX_PRICE_SCALE itself is accepted.  Every prediction of the prediction  *)
(* list has a predicted_price within [0, MAX_PRICE_SCALE] in every          *)
(* reachable state.                                                         *)
C29_PriceScaleBounded ==
    /\ \A i \in 1..Len(get_precision_predictions(storage)) :
           /\ 0 <= get_precision_predictions(storage)[i].predicted_price
           /\ get_precision_predictions(storage)[i].predicted_price <= MAX_PRICE_SCALE
    /\ \A user \in Users, amount \in Amounts, predicted_price \in PredictedPrices,
          auth \in BOOLEAN :
           LET out == place_precision_prediction(storage, ledger, user, amount,
                                                 predicted_price, auth)
               alias == predict_price(storage, ledger, user, predicted_price, amount, auth) IN
           /\ predicted_price > MAX_PRICE_SCALE =>
                  /\ out.res # "Ok"
                  /\ out.st = storage
                  /\ Commit(storage, out) = storage
                  /\ (auth /\ amount > 0) => out.res = "InvalidPriceScale"
                  /\ (auth /\ amount > 0) => alias.res = "InvalidPriceScale"
                  /\ alias.st = storage
           /\ out.res = "Ok" => predicted_price <= MAX_PRICE_SCALE
           /\ (/\ auth
               /\ predicted_price = MAX_PRICE_SCALE
               /\ PredictionOtherwiseValid(user, amount, predicted_price)
               /\ ledger < ActiveRound.bet_end_ledger) => out.res = "Ok"

(* An open Precision round that holds a prediction at MAX_PRICE_SCALE, and  *)
(* an account whose prediction only the price scale turns down.             *)
C29_Witness ==
    /\ IsSome(storage.ActiveRound)
    /\ ledger < ActiveRound.bet_end_ledger
    /\ \E i \in 1..Len(get_precision_predictions(storage)) :
           get_precision_predictions(storage)[i].predicted_price = MAX_PRICE_SCALE
    /\ \E user \in Users, amount \in Amounts :
           /\ PredictionOtherwiseValid(user, amount, MAX_PRICE_SCALE)
           /\ place_precision_prediction(storage, ledger, user, amount,
                                         MAX_PRICE_SCALE + 1, TRUE).res = "InvalidPriceScale"

(* C30: from every state, predict_price(account, guessed_price, amount)     *)
(* returns what place_precision_prediction(account, amount, guessed_price)  *)
(* returns and leaves the same storage.                                     *)
C30_PredictPriceAlias ==
    \A user \in Users, guessed_price \in PredictedPrices, amount \in Amounts,
       auth \in BOOLEAN :
        LET alias == predict_price(storage, ledger, user, guessed_price, amount, auth)
            direct == place_precision_prediction(storage, ledger, user, amount,
                                                 guessed_price, auth) IN
        /\ alias.res = direct.res
        /\ alias.ret = direct.ret
        /\ alias.st = direct.st
        /\ Commit(storage, alias) = Commit(storage, direct)

(* An open Precision round with a prediction on the list, in which          *)
(* predict_price is accepted for one account at a price other than the      *)
(* amount and turned down for the account on the list.                      *)
C30_Witness ==
    /\ Len(get_precision_predictions(storage)) = 1
    /\ \E user \in Users :
           /\ predict_price(storage, ledger, user, MAX_PRICE_SCALE, 1, TRUE).res = "Ok"
           /\ predict_price(storage, ledger, user, MAX_PRICE_SCALE, 1, TRUE).st # storage
    /\ \E user \in Users :
           predict_price(storage, ledger, user, 1, 1, TRUE).res = "AlreadyBet"

(* C31: in every reachable state the legacy Positions map equals the        *)
(* Up/Down position map: the same accounts, each with the same amount and   *)
(* side, so that resolve_round, which reads Positions, settles exactly the  *)
(* positions get_updown_positions reports.                                  *)
C31_LegacyMapEqualsPositions ==
    UnwrapOr(storage.Positions, EmptyMap) = get_updown_positions(storage)

(* The Up/Down life cycle over all NumUsers accounts and two rounds: an     *)
(* account of a replaced round, and a winner and a loser of the round that  *)
(* replaces it.                                                             *)
NextStale ==
    \/ Initialize
    \/ CreateRound(StaleRounds)
    \/ SetWindows
    \/ PlaceBet(Users)
    \/ ResolveRound
    \/ ClaimWinnings(Users)
    \/ MintInitial(Users)
    \/ AdvanceLedger(PayoutLedger)

SpecStale == Init /\ [][NextStale]_vars

(* The stakes the active round holds: its pools in Up/Down mode, the        *)
(* amounts of its predictions in Precision mode.                            *)
StakesHeld(st) ==
    IF ~IsSome(st.ActiveRound) THEN 0
    ELSE LET round == Unwrap(st.ActiveRound)
             predictions == get_precision_predictions(st) IN
         round.pool_up + round.pool_down
         + SumOver([i \in 1..Len(predictions) |-> predictions[i].amount],
                   1..Len(predictions))

(* Balances, pending winnings and the stakes of the active round. *)
TotalValue(st) ==
    SumOver(BalanceOf(st), Users) + SumOver(PendingOf(st), Users) + StakesHeld(st)

(* The accounts that have minted. *)
Minted(st) == {u \in Users : IsSome(st.Balance[u])}

(* C32: in every reachable state the balances and pending winnings of all   *)
(* accounts plus the stakes held by the active round sum to at most         *)
(* INITIAL_AMOUNT for each account that has minted.                         *)
C32_ValueConserved ==
    TotalValue(storage) <= INITIAL_AMOUNT * Cardinality(Minted(storage))

(* Stats records an account can hold: current_streak <= best_streak <=      *)
(* total_wins, every counter up to StatsMax.                                *)
StatsInputs ==
    {s \in [total_wins : 0..StatsMax, total_losses : 0..StatsMax,
            current_streak : 0..StatsMax, best_streak : 0..StatsMax] :
        s.current_streak <= s.best_streak /\ s.best_streak <= s.total_wins}

(* The larger of two counters. *)
Max(a, b) == IF a >= b THEN a ELSE b

(* The stats of `user` go from `before` to `after` by a recorded win. *)
WinRecorded(before, after) ==
    /\ after.total_wins = before.total_wins + 1
    /\ after.current_streak = before.current_streak + 1
    /\ after.best_streak = Max(before.best_streak, before.current_streak + 1)
    /\ after.total_losses = before.total_losses

(* The stats of `user` go from `before` to `after` by a recorded loss. *)
LossRecorded(before, after) ==
    /\ after.total_losses = before.total_losses + 1
    /\ after.current_streak = 0
    /\ after.total_wins = before.total_wins
    /\ after.best_streak = before.best_streak

(* C33: recording a win adds 1 to total_wins and to current_streak, sets    *)
(* best_streak to the larger of best_streak and the new current_streak and  *)
(* leaves total_losses; recording a loss adds 1 to total_losses, sets       *)
(* current_streak to 0 and leaves total_wins and best_streak; neither       *)
(* touches another account's stats.  An account with no stats record has    *)
(* all four counters 0.                                                     *)
C33_StatsUpdates ==
    \A user \in Users :
        /\ ~IsSome(storage.UserStats[user]) =>
               get_user_stats(storage, user) =
                   [total_wins |-> 0, total_losses |-> 0,
                    current_streak |-> 0, best_streak |-> 0]
        /\ WinRecorded(get_user_stats(storage, user),
                       get_user_stats(_update_stats_win(storage, user), user))
        /\ LossRecorded(get_user_stats(storage, user),
                        get_user_stats(_update_stats_loss(storage, user), user))
        /\ \A other \in Users \ {user} :
               /\ _update_stats_win(storage, user).UserStats[other] = storage.UserStats[other]
               /\ _update_stats_loss(storage, user).UserStats[other] = storage.UserStats[other]
        /\ \A stats \in StatsInputs :
               LET held == [storage EXCEPT !.UserStats[user] = Some(stats)] IN
               /\ WinRecorded(stats, get_user_stats(_update_stats_win(held, user), user))
               /\ LossRecorded(stats, get_user_stats(_update_stats_loss(held, user), user))

(* An account that has won a round and lost the next, beside an account     *)
(* never seen.                                                              *)
C33_Witness ==
    \E user \in Users, other \in Users :
        /\ get_user_stats(storage, user) =
               [total_wins |-> 1, total_losses |-> 1, current_streak |-> 0, best_streak |-> 1]
        /\ ~IsSome(storage.UserStats[other])
        /\ get_user_stats(_update_stats_win(storage, user), user).best_streak = 1

(* The pool of the side that final_price makes the winner of `round`. *)
WinningPool(round, final_price) ==
    IF final_price > round.price_start THEN round.pool_up ELSE round.pool_down

(* C34: when an ended Up/Down round is resolved by the Oracle at a price    *)
(* above 0 that differs from price_start and the pool of the winning side   *)
(* is 0, resolve_round succeeds, credits no pending winnings, changes no    *)
(* stats and no balance, and still retires the round and clears its         *)
(* positions: the stakes of the losing side are neither paid nor refunded.  *)
C34_EmptyWinningPool ==
    (IsSome(storage.ActiveRound) /\ ActiveRound.mode = UpDown
                                 /\ ledger >= ActiveRound.end_ledger) =>
        \A final_price \in Prices \ {0} :
            (final_price # ActiveRound.price_start
             /\ WinningPool(ActiveRound, final_price) = 0) =>
                LET out == resolve_round(storage, ledger, final_price, TRUE)
                    after == Commit(storage, out) IN
                /\ out.res = "Ok"
                /\ PendingOf(after) = PendingOf(storage)
                /\ StatsOf(after) = StatsOf(storage)
                /\ after.PendingWinnings = storage.PendingWinnings
                /\ after.UserStats = storage.UserStats
                /\ after.Balance = storage.Balance
                /\ get_active_round(after) = None
                /\ get_updown_positions(after) = EmptyMap
                /\ UnwrapOr(after.Positions, EmptyMap) = EmptyMap
                /\ after = retire_round(storage)

(* An ended Up/Down round with stakes on one side only, resolved for the    *)
(* other side.                                                              *)
C34_Witness ==
    /\ IsSome(storage.ActiveRound)
    /\ ActiveRound.mode = UpDown
    /\ ledger >= ActiveRound.end_ledger
    /\ \E final_price \in Prices \ {0} :
           /\ final_price # ActiveRound.price_start
           /\ WinningPool(ActiveRound, final_price) = 0
           /\ ActiveRound.pool_up + ActiveRound.pool_down > 1
           /\ Cardinality(DOMAIN get_updown_positions(storage)) = 2
           /\ resolve_round(storage, ledger, final_price, TRUE).res = "Ok"

(* The store with no pending winnings on record. *)
NothingPending(st) == [st EXCEPT !.PendingWinnings = [u \in Users |-> None]]

(* C35: pending winnings accumulate: a successful resolve_round leaves each *)
(* account the pending winnings it had plus what the resolution credits to  *)
(* it, the credit being what the same resolution credits when nothing is    *)
(* pending; a claim after the resolution returns the whole sum.  The only   *)
(* call that decreases the pending winnings of an account is a              *)
(* claim_winnings of that account.                                          *)
C35_PendingAccumulates ==
    /\ \A final_price \in Prices :
           LET out == resolve_round(storage, ledger, final_price, TRUE)
               after == Commit(storage, out)
               fresh == resolve_round(NothingPending(storage), ledger, final_price, TRUE) IN
           out.res = "Ok" =>
               /\ fresh.res = "Ok"
               /\ \A user \in Users :
                      /\ get_pending_winnings(after, user) =
                             get_pending_winnings(storage, user)
                             + get_pending_winnings(fresh.st, user)
                      /\ get_pending_winnings(after, user) >= get_pending_winnings(storage, user)
                      /\ claim_winnings(after, user, TRUE).res = "Ok" =>
                             claim_winnings(after, user, TRUE).ret =
                                 get_pending_winnings(storage, user)
                                 + get_pending_winnings(fresh.st, user)
    /\ \A out \in CallOutcomes, user \in Users :
           get_pending_winnings(Commit(storage, out), user)
               < get_pending_winnings(storage, user) =>
                   out = Outcome(claim_winnings(storage, user, TRUE))

(* A winner of the round to resolve who has winnings of an earlier round    *)
(* still to claim.                                                          *)
C35_Witness ==
    \E final_price \in Prices, user \in Users :
        LET out == resolve_round(storage, ledger, final_price, TRUE) IN
        /\ out.res = "Ok"
        /\ rounds = 2
        /\ get_pending_winnings(storage, user) > 0
        /\ get_pending_winnings(out.st, user) > get_pending_winnings(storage, user)
        /\ user \in DOMAIN get_updown_positions(storage)

(* The first rejection of place_bet that applies to an authorized call in   *)
(* the current state, in the order of the claim; "None" when none applies.  *)
FirstBetRejection(user, amount) ==
    IF amount <= 0 THEN "InvalidBetAmount"
    ELSE IF ~IsSome(storage.ActiveRound) THEN "NoActiveRound"
    ELSE IF ActiveRound.mode # UpDown THEN "WrongModeForPrediction"
    ELSE IF ledger >= ActiveRound.bet_end_ledger THEN "RoundEnded"
    ELSE IF balance(storage, user) < amount THEN "InsufficientBalance"
    ELSE IF IsSome(get_user_position(storage, user)) THEN "AlreadyBet"
    ELSE "None"

(* C36: when several rejections apply to a place_bet, the call reports the  *)
(* first of them in the order InvalidBetAmount, NoActiveRound,              *)
(* WrongModeForPrediction, RoundEnded, InsufficientBalance, AlreadyBet, and *)
(* is accepted when none applies; an account with a position that bets      *)
(* again at or after bet_end_ledger gets RoundEnded.                        *)
C36_BetRejectionOrder ==
    \A user \in Users, amount \in Amounts, side \in Sides :
        LET out == place_bet(storage, ledger, user, amount, side, TRUE) IN
        /\ IF FirstBetRejection(user, amount) = "None"
           THEN out.res = "Ok"
           ELSE out.res = FirstBetRejection(user, amount)
        /\ (/\ amount > 0
            /\ IsSome(storage.ActiveRound)
            /\ ActiveRound.mode = UpDown
            /\ IsSome(get_user_position(storage, user))
            /\ ledger >= ActiveRound.bet_end_ledger) => out.res = "RoundEnded"

(* An account with a position and a balance that bets again once the bet    *)
(* window has closed, and another that bets more than it has.               *)
C36_Witness ==
    /\ IsSome(storage.ActiveRound)
    /\ ledger >= ActiveRound.bet_end_ledger
    /\ \E user \in Users :
           /\ IsSome(get_user_position(storage, user))
           /\ balance(storage, user) >= 1
           /\ place_bet(storage, ledger, user, 1, Up, TRUE).res = "RoundEnded"
    /\ \E user \in Users :
           /\ IsSome(get_user_position(storage, user))
           /\ balance(storage, user) < 1
           /\ place_bet(storage, ledger, user, 1, Up, TRUE).res = "RoundEnded"

(* The ledgers at which a call can be made on a round created within        *)
(* MaxLedger under the default windows.                                     *)
Ledgers == 0..(MaxLedger + DEFAULT_RUN_WINDOW)

(* What the stake intake returns at the current ledger, over all inputs of  *)
(* authorized calls.                                                        *)
StakeOutcomes ==
    {Outcome(place_bet(storage, ledger, user, amount, side, TRUE)) :
        user \in Users, amount \in Amounts, side \in Sides}
    \cup {Outcome(place_precision_prediction(storage, ledger, user, amount, predicted_price, TRUE)) :
        user \in Users, amount \in Amounts, predicted_price \in PredictedPrices}

(* C37: every active round has start_ledger < bet_end_ledger < end_ledger,  *)
(* and a stake accepted in the round is accepted at a ledger strictly       *)
(* below every ledger at which resolve_round of the round can be accepted:  *)
(* the calls that take stakes and the call that resolves are never both     *)
(* accepted at one ledger.                                                  *)
C37_WindowsNeverOverlap ==
    IsSome(storage.ActiveRound) =>
        /\ ActiveRound.start_ledger < ActiveRound.bet_end_ledger
        /\ ActiveRound.bet_end_ledger < ActiveRound.end_ledger
        /\ \A stake \in StakeOutcomes :
               stake.res = "Ok" =>
                   /\ ActiveRound.start_ledger <= ledger
                   /\ ledger < ActiveRound.bet_end_ledger
                   /\ \A later \in Ledgers, final_price \in Prices :
                          resolve_round(stake.st, later, final_price, TRUE).res = "Ok" =>
                              ledger < later
        /\ \A final_price \in Prices :
               resolve_round(storage, ledger, final_price, TRUE).res = "Ok" =>
                   \A stake \in StakeOutcomes : stake.res # "Ok"

(* A round created after the clock has moved, with a stake accepted at its  *)
(* last open ledger and the resolution accepted two ledgers on.             *)
C37_Witness ==
    /\ IsSome(storage.ActiveRound)
    /\ ActiveRound.start_ledger > 0
    /\ ledger = ActiveRound.bet_end_ledger - 1
    /\ \E stake \in StakeOutcomes : stake.res = "Ok"
    /\ resolve_round(storage, ledger + 1, 1, TRUE).res = "RoundNotEnded"
    /\ resolve_round(storage, ledger + 2, 1, TRUE).res = "Ok"

(* current_streak <= best_streak <= total_wins. *)
StreaksOrdered(stats) ==
    /\ stats.current_streak <= stats.best_streak
    /\ stats.best_streak <= stats.total_wins

(* C38: in every reachable state every account has                          *)
(* current_streak <= best_streak <= total_wins; a recorded win and a        *)
(* recorded loss keep the ordering of every stats record that has it.       *)
C38_StreaksOrdered ==
    /\ \A user \in Users :
           /\ StreaksOrdered(get_user_stats(storage, user))
           /\ StreaksOrdered(get_user_stats(_update_stats_win(storage, user), user))
           /\ StreaksOrdered(get_user_stats(_update_stats_loss(storage, user), user))
    /\ \A stats \in StatsInputs :
           LET held == [storage EXCEPT !.UserStats[1] = Some(stats)] IN
           /\ StreaksOrdered(get_user_stats(_update_stats_win(held, 1), 1))
           /\ StreaksOrdered(get_user_stats(_update_stats_loss(held, 1), 1))

(* An account that has won two rounds in a row beside one that has lost     *)
(* after a win.                                                             *)
C38_Witness ==
    \E user \in Users, other \in Users :
        /\ get_user_stats(storage, user).current_streak = 2
        /\ get_user_stats(storage, other).total_wins = 1
        /\ get_user_stats(storage, other).current_streak = 0

(* C39: a successful resolve_round of an Up/Down round at a price that      *)
(* differs from price_start, with a winning pool above 0, leaves unpaid     *)
(* pool_up + pool_down less the payouts it credits; the amount unpaid is    *)
(* at least 0 and below the number of winning positions of the round.       *)
C39_OnlyDustUnpaid ==
    \A final_price \in Prices :
        DecisiveResolution(final_price) =>
            LET after == Commit(storage, resolve_round(storage, ledger, final_price, TRUE))
                winning_side == IF final_price > ActiveRound.price_start THEN Up ELSE Down
                recorded == get_updown_positions(storage)
                winners == {u \in DOMAIN recorded : recorded[u].side = winning_side}
                paid == SumOver(PendingOf(after), Users) - SumOver(PendingOf(storage), Users)
                unpaid == ActiveRound.pool_up + ActiveRound.pool_down - paid IN
            /\ unpaid >= 0
            /\ unpaid < Cardinality(winners)

(* The Oracle attempts resolve_round with a price above 0. *)
OracleResolves ==
    \E final_price \in Prices \ {0} :
        /\ Call(resolve_round(storage, ledger, final_price, TRUE))
        /\ UNCHANGED rounds

(* The life cycle of Spec at the narrowed widths of InitNarrow, in which    *)
(* the ledger sequence keeps advancing, as far as MaxLedger, and the Oracle *)
(* keeps attempting resolve_round.                                          *)
SpecLiveNarrow ==
    /\ InitNarrow
    /\ [][Next]_vars
    /\ WF_vars(AdvanceLedger(MaxLedger))
    /\ WF_vars(OracleResolves)

(* The active round is the n-th round created. *)
RoundActive(n) == IsSome(storage.ActiveRound) /\ rounds = n

(* C40: with the ledger sequence advancing and the Oracle attempting        *)
(* resolve_round with a price above 0, every active round whose end_ledger  *)
(* the ledger sequence reaches is eventually retired or replaced; at        *)
(* end_ledger and after it the Oracle's resolve_round succeeds in either    *)
(* mode, whatever positions, predictions and pending winnings are on        *)
(* record.                                                                  *)
C40_RoundsEventuallyRetired ==
    /\ [](IsSome(storage.ActiveRound) =>
             \A now \in ledger..MaxLedger, final_price \in Prices \ {0} :
                 now >= ActiveRound.end_ledger =>
                     /\ resolve_round(storage, now, final_price, TRUE).res = "Ok"
                     /\ ~IsSome(Commit(storage,
                                       resolve_round(storage, now, final_price, TRUE)).ActiveRound))
    /\ \A n \in 1..MaxRounds :
           (RoundActive(n) /\ ActiveRound.end_ledger <= MaxLedger) ~> ~RoundActive(n)

====
